---- MODULE Spec2Model ----
(***************************************************************************)
(* A model of the proof-of-work blockchain node: the block store           *)
(* (blockchain.rs), blocks and proof of work (block.rs), transactions and  *)
(* their two-step signing (transaction.rs, tx.rs), the UTXO index          *)
(* (utxoset.rs) and the gossip handlers of the node (server.rs).           *)
(*                                                                         *)
(* Conventions.  A byte string or a hex string is a sequence: <<>> is the  *)
(* empty string.  SHA256 is an ideal (injective) hash: the digest of x is  *)
(* the one-element string <<x>>, so two digests are equal exactly when     *)
(* their preimages are.  RIPEMD160(SHA256(b)) is the string <<2>> \o b.    *)
(* An Ed25519 signature of message m under secret key k is the string      *)
(* <<[msg |-> m, by |-> k]>>; it verifies under the public key of k only.  *)
(***************************************************************************)
EXTENDS Integers, Sequences, FiniteSets, Bags, TLC

VARIABLES
    chain,      \* node -> BlockChain {db, last ("LAST" key), cur (current_hash)}
    utxo,       \* node -> the data/utxos store: txid -> TXOutputs.outputs
    mempool,    \* node -> ServerInner.mempool: txid -> Transaction
    known,      \* node -> ServerInner.known_nodes
    transit,    \* node -> ServerInner.blocks_in_transit
    msgs,       \* bag of frames written to a peer and not yet read
    threads,    \* bag of handler threads between two of their steps
    pool,       \* signed transactions held by wallets and clients
    clock,      \* SystemTime::now() in milliseconds
    wire,       \* blocks peers have produced and sent to the local node
    sync,       \* how the index follows the chain: "synced", "behind", "stale"
    hist,       \* the last call made and what it returned (observer)
    sv          \* the sign / verify harness: one transaction and its keys

vars == <<chain, utxo, mempool, known, transit, msgs, threads, pool, clock,
          wire, sync, hist, sv>>

-----------------------------------------------------------------------------
(* Bounds and universes *)

\* Wallets: 1 is A, 2 is B.
Wallets == {1, 2}
\* Amounts a wallet asks new_utxo to send.
Amounts == {30}
\* The most inputs of a transaction drawn for the sign / verify harness.
MaxInputs == 2
\* The most transactions wallets create.
MaxPool == 3
\* The most blocks the local node mines.
MaxMined == 3
\* The most distinct blocks peers send to the local node.
MaxPeerBlocks == 2
\* The most distinct blocks peers send in the iterator harness.
MaxWalkBlocks == 3

\* server.rs: const KNOWN_NODE_1 ("localhost:3000"); N1 is a second node.
KNOWN_NODE_1 == "N0"
Nodes == {"N0", "N1"}

MaxI32 == 2147483647
MinI32 == -2147483647 - 1

\* server.rs: const VERSION
VERSION == 1
\* The most handler threads that are between two of their steps at a time.
MaxThreads == 2
\* The most blocks the bootstrap node holds above genesis when the nodes start.
MaxChain == 2
\* The most transactions of a block drawn for new_block.
MaxBlockTxs == 2
\* The most outputs of a drawn UTXO index.
MaxIndexOutputs == 3
\* The values of the outputs of a drawn index (the last is 2^30) and the
\* amounts asked of it.
IndexValues == {30, 70, 1073741824}
IndexAmounts == {-30, 0, 30, 100, MaxI32}
\* The most hashes in blocks_in_transit when an inv arrives, and the most
\* items of that inv.
MaxInTransit == 2
MaxInvItems == 2

\* block.rs: const TARGET_HEXT
TARGET_HEXT == 4
\* The number of values the leading TARGET_HEXT hex digits of a digest are
\* folded into (16^4 in the program); the value 0 stands for "0000".
PowSpace == 3
\* The coinbase reward, transaction.rs new_coinbase.
Subsidy == 100

-----------------------------------------------------------------------------
(* Bytes, keys, hashes, signatures *)

PubKey(w) == <<1, w>>
SecretKey(w) == w

\* hash_pub_key: RIPEMD160(SHA256(pub_key)), 20 bytes.
HashPubKey(bytes) == <<2>> \o bytes

\* Address::decode(address).unwrap().body for the address of wallet w
\* (wallet.get_address() encodes the hash of the wallet's public key).
AddressBody(w) == HashPubKey(PubKey(w))

\* The payloads a coinbase carries in vin[0].pub_key.
DataGenesis == <<3, 0>>          \* "Genesis Block"
DataMiningReward == <<3, 1>>     \* "Mining Reward"
DataRewardTo(w) == <<3, 10 + w>> \* format!("Reward to {}", to)

\* ed25519::signature(message, private_key)
Ed25519Signature(message, sk) == << [msg |-> message, by |-> sk] >>

\* ed25519::verify(message, public_key, signature)
Ed25519Verify(message, pk, sig) ==
    \E w \in Wallets : pk = PubKey(w) /\ sig = Ed25519Signature(message, SecretKey(w))

-----------------------------------------------------------------------------
(* tx.rs *)

TXInput(txid, vout, signature, pub_key) ==
    [txid |-> txid, vout |-> vout, signature |-> signature, pub_key |-> pub_key]

\* TXOutput::new(value, address): lock() stores the address body.
TXOutputNew(value, w) == [value |-> value, pub_key_hash |-> AddressBody(w)]

\* TXInput::can_unlock_output_with
CanUnlockOutputWith(in, unlocking_data) == HashPubKey(in.pub_key) = unlocking_data

\* TXOutput::can_be_unlock_with
CanBeUnlockWith(out, unlocking_data) == out.pub_key_hash = unlocking_data

-----------------------------------------------------------------------------
(* transaction.rs *)

\* Transaction::hash: blanks id, serializes the rest, SHA256 as a hex string.
TxHash(tx) == << [vin |-> tx.vin, vout |-> tx.vout] >>

\* Transaction::is_coinbase
IsCoinbase(tx) ==
    /\ Len(tx.vin) = 1
    /\ tx.vin[1].txid = <<>>
    /\ tx.vin[1].vout = -1

\* Transaction::new_coinbase(to, data)
NewCoinbase(to, data) ==
    LET d  == IF data = <<>> THEN DataRewardTo(to) ELSE data
        tx == [id   |-> <<>>,
               vin  |-> << TXInput(<<>>, -1, <<>>, d) >>,
               vout |-> << TXOutputNew(Subsidy, to) >>]
    IN [tx EXCEPT !.id = TxHash(tx)]

\* The loops of trim_copy: each input keeps txid and vout, each output is
\* copied.
RECURSIVE TrimInputs(_)
TrimInputs(vin) ==
    IF vin = <<>> THEN <<>>
    ELSE << TXInput(Head(vin).txid, Head(vin).vout, <<>>, <<>>) >> \o TrimInputs(Tail(vin))

RECURSIVE TrimOutputs(_)
TrimOutputs(vout) ==
    IF vout = <<>> THEN <<>>
    ELSE << [value |-> Head(vout).value, pub_key_hash |-> Head(vout).pub_key_hash] >>
         \o TrimOutputs(Tail(vout))

\* Transaction::trim_copy
TrimCopy(tx) == [id |-> tx.id, vin |-> TrimInputs(tx.vin), vout |-> TrimOutputs(tx.vout)]

\* prev_tx.vout[vout as usize] is in bounds (a negative i32 is a huge usize).
VoutInBounds(prev_tx, vout) == vout >= 0 /\ vout < Len(prev_tx.vout)

\* One iteration of the loop of sign() stamps slot in_id of the trimmed copy
\* with the producing output's pub_key_hash and hashes it.
StampSlot(tx_copy, prev_txs, in_id) ==
    LET prev_tx == prev_txs[tx_copy.vin[in_id].txid]
        c == [tx_copy EXCEPT
                !.vin[in_id].signature = <<>>,
                !.vin[in_id].pub_key = prev_tx.vout[tx_copy.vin[in_id].vout + 1].pub_key_hash]
    IN [c EXCEPT !.id = TxHash(c)]

\* What the loop of sign() leaves in the trimmed copy after iteration in_id:
\* step b clears the stamped pub_key again.
SignClear(stamped, in_id) == [stamped EXCEPT !.vin[in_id].pub_key = <<>>]

\* What the loop of verify() leaves in the trimmed copy after iteration in_id:
\* the stamped pub_key stays.
VerifyKeep(stamped, in_id) == stamped

\* The loop of Transaction::sign, lines 106-120.  The result is
\* [res |-> "ok" | "panic", tx |-> self].
RECURSIVE SignLoop(_, _, _, _, _)
SignLoop(self, tx_copy, private_key, prev_txs, in_id) ==
    IF in_id > Len(self.vin) THEN [res |-> "ok", tx |-> self]
    ELSE IF tx_copy.vin[in_id].txid \notin DOMAIN prev_txs THEN [res |-> "panic", tx |-> self]
    ELSE IF ~VoutInBounds(prev_txs[tx_copy.vin[in_id].txid], tx_copy.vin[in_id].vout)
         THEN [res |-> "panic", tx |-> self]
    ELSE LET stamped == StampSlot(tx_copy, prev_txs, in_id)
             signature == Ed25519Signature(stamped.id, private_key)
         IN SignLoop([self EXCEPT !.vin[in_id].signature = signature],
                     SignClear(stamped, in_id), private_key, prev_txs, in_id + 1)

\* The first loop of Transaction::sign, lines 99-103: "ok", "err" or "panic".
RECURSIVE SignPrevCheck(_, _, _)
SignPrevCheck(self, prev_txs, k) ==
    IF k > Len(self.vin) THEN "ok"
    ELSE IF self.vin[k].txid \notin DOMAIN prev_txs THEN "panic"
    ELSE IF prev_txs[self.vin[k].txid].id = <<>> THEN "err"
    ELSE SignPrevCheck(self, prev_txs, k + 1)

\* Transaction::sign(private_key, prev_txs)
Sign(self, private_key, prev_txs) ==
    IF IsCoinbase(self) THEN [res |-> "ok", tx |-> self]
    ELSE IF SignPrevCheck(self, prev_txs, 1) # "ok"
         THEN [res |-> SignPrevCheck(self, prev_txs, 1), tx |-> self]
    ELSE SignLoop(self, TrimCopy(self), private_key, prev_txs, 1)

\* The inner loop of Transaction::verify, lines 143-156:
\* "true", "false" or "panic".
RECURSIVE VerifyLoop(_, _, _, _)
VerifyLoop(self, tx_copy, prev_txs, in_id) ==
    IF in_id > Len(tx_copy.vin) THEN "true"
    ELSE IF tx_copy.vin[in_id].txid \notin DOMAIN prev_txs THEN "panic"
    ELSE IF ~VoutInBounds(prev_txs[tx_copy.vin[in_id].txid], tx_copy.vin[in_id].vout)
         THEN "panic"
    ELSE LET stamped == StampSlot(tx_copy, prev_txs, in_id)
         IN IF ~Ed25519Verify(stamped.id, self.vin[in_id].pub_key, self.vin[in_id].signature)
            THEN "false"
            ELSE VerifyLoop(self, VerifyKeep(stamped, in_id), prev_txs, in_id + 1)

\* The outer loop of Transaction::verify, lines 137-157.
RECURSIVE VerifyInputs(_, _, _)
VerifyInputs(self, prev_txs, k) ==
    IF k > Len(self.vin) THEN "true"
    ELSE IF self.vin[k].txid \notin DOMAIN prev_txs THEN "panic"
    ELSE IF prev_txs[self.vin[k].txid].id = <<>> THEN "err"
    ELSE LET r == VerifyLoop(self, TrimCopy(self), prev_txs, 1)
         IN IF r # "true" THEN r ELSE VerifyInputs(self, prev_txs, k + 1)

\* Transaction::verify(prev_txs): "true", "false", "err" or "panic".
Verify(self, prev_txs) ==
    IF IsCoinbase(self) THEN "true" ELSE VerifyInputs(self, prev_txs, 1)

-----------------------------------------------------------------------------
(* block.rs *)

\* Block::hash_transaction: the Merkle root over the transactions' hashes
\* (tx.clone().hash(), not the id field) binds the sequence of hashes.
HashTransaction(b) == [i \in DOMAIN b.transactions |-> TxHash(b.transactions[i])]

\* Block::prepare_hash_data
PrepareHashData(b) ==
    [prev   |-> b.prev_block_hash,
     root   |-> HashTransaction(b),
     ts     |-> b.timestamp,
     target |-> TARGET_HEXT,
     nonce  |-> b.nonce]

\* SHA256 of the serialized data, as a hex string.
Sha256Hex(data) == << data >>

\* The leading TARGET_HEXT hex digits of the digest of data, folded into
\* 0 .. PowSpace - 1.
HexPrefix(data) == (data.ts + Len(data.root) + data.nonce) % PowSpace

\* Block::validate
Validate(b) == HexPrefix(PrepareHashData(b)) = 0

\* run_proof_of_work without its nonce search (lines 90-92): the digest of
\* the block as it stands becomes its hash.
HashWithoutSearch(b) == [b EXCEPT !.hash = Sha256Hex(PrepareHashData(b))]

\* Block::run_proof_of_work
RECURSIVE RunProofOfWork(_)
RunProofOfWork(b) ==
    IF ~Validate(b) THEN RunProofOfWork([b EXCEPT !.nonce = b.nonce + 1])
    ELSE [b EXCEPT !.hash = Sha256Hex(PrepareHashData(b))]

\* Block::new_block(data, prev_block_hash, height) at wall-clock time now.
NewBlock(data, prev_block_hash, height, now) ==
    RunProofOfWork([timestamp       |-> now,
                    transactions    |-> data,
                    prev_block_hash |-> prev_block_hash,
                    hash            |-> <<>>,
                    height          |-> height,
                    nonce           |-> 0])

\* Block::new_genesis_block
NewGenesisBlock(coinbase, now) == NewBlock(<< coinbase >>, <<>>, 0, now)

-----------------------------------------------------------------------------
(* blockchain.rs *)

\* BlockChain::create_blockchain(address)
CreateBlockchain(address, now) ==
    LET genesis == NewGenesisBlock(NewCoinbase(address, DataGenesis), now)
    IN [db   |-> (genesis.hash :> genesis),
        last |-> genesis.hash,
        cur  |-> genesis.hash]

\* BlockChainIter: the blocks from hash h along prev_block_hash, until a
\* hash is not a key of the store.
RECURSIVE IterFrom(_, _)
IterFrom(db, h) ==
    IF h \notin DOMAIN db THEN <<>>
    ELSE << db[h] >> \o IterFrom(db, db[h].prev_block_hash)

\* BlockChain::iter, collected
Iter(bc) == IterFrom(bc.db, bc.cur)

RECURSIVE Flatten(_)
Flatten(blocks) ==
    IF blocks = <<>> THEN <<>>
    ELSE Head(blocks).transactions \o Flatten(Tail(blocks))

\* The transactions in the order the nested loops "for block in self.iter()
\* { for tx in block.get_transactions()" visit them.
ChainTxs(bc) == Flatten(Iter(bc))

\* BlockChain::get_block_hashes
GetBlockHashes(bc) == [i \in DOMAIN Iter(bc) |-> Iter(bc)[i].hash]

\* BlockChain::get_best_height
GetBestHeight(bc) == bc.db[bc.last].height

\* BlockChain::find_transaction: [found, tx]
RECURSIVE FindIn(_, _)
FindIn(txs, id) ==
    IF txs = <<>> THEN [found |-> FALSE]
    ELSE IF Head(txs).id = id THEN [found |-> TRUE, tx |-> Head(txs)]
    ELSE FindIn(Tail(txs), id)

FindTransaction(bc, id) == FindIn(ChainTxs(bc), id)

\* BlockChain::get_prev_txs: [res |-> "ok", map] or [res |-> "err"]
RECURSIVE PrevTxsFrom(_, _, _, _)
PrevTxsFrom(bc, tx, k, map) ==
    IF k > Len(tx.vin) THEN [res |-> "ok", map |-> map]
    ELSE LET f == FindTransaction(bc, tx.vin[k].txid)
         IN IF ~f.found THEN [res |-> "err"]
            ELSE PrevTxsFrom(bc, tx, k + 1,
                   [x \in DOMAIN map \cup {tx.vin[k].txid} |->
                      IF x = tx.vin[k].txid THEN f.tx ELSE map[x]])

GetPrevTxs(bc, tx) == PrevTxsFrom(bc, tx, 1, << >>)

\* BlockChain::verify_transaction: "true", "false", "err" or "panic"
VerifyTransaction(bc, tx) ==
    LET p == GetPrevTxs(bc, tx)
    IN IF p.res = "err" THEN "err" ELSE Verify(tx, p.map)

\* BlockChain::sign_transaction
SignTransaction(bc, tx, private_key) ==
    LET p == GetPrevTxs(bc, tx)
    IN IF p.res = "err" THEN [res |-> "err", tx |-> tx] ELSE Sign(tx, private_key, p.map)

\* The check of mine_block made on the first transaction of the list only.
VerifyFirstOnly(bc, txs, k) ==
    IF txs = <<>> THEN "ok"
    ELSE LET r == VerifyTransaction(bc, txs[1])
         IN IF r = "true" THEN "ok" ELSE IF r = "false" THEN "invalid" ELSE r

\* The loop of mine_block, lines 66-70: "ok", or how the first transaction
\* that does not verify fails ("invalid", "err", "panic").
RECURSIVE VerifyAll(_, _, _)
VerifyAll(bc, txs, k) ==
    IF k > Len(txs) THEN "ok"
    ELSE LET r == VerifyTransaction(bc, txs[k])
         IN IF r = "true" THEN VerifyAll(bc, txs, k + 1)
            ELSE IF r = "false" THEN "invalid"
            ELSE r

\* i32 addition of one: a debug build panics on overflow, a release build
\* wraps.  [res |-> "ok", v] or [res |-> "panic"].
I32Succ(v, wraps) ==
    IF v < MaxI32 THEN [res |-> "ok", v |-> v + 1]
    ELSE IF wraps THEN [res |-> "ok", v |-> MinI32]
    ELSE [res |-> "panic"]

\* i32 addition a + b: [res |-> "ok", v] or [res |-> "panic"]; on overflow a
\* debug build panics and a release build wraps around.
I32Add(a, b, wraps) ==
    IF b > 0 /\ a > MaxI32 - b
    THEN IF wraps THEN [res |-> "ok", v |-> (a - MaxI32 - 1) + (b - MaxI32 - 1)]
         ELSE [res |-> "panic"]
    ELSE IF b < 0 /\ a < MinI32 - b
    THEN IF wraps THEN [res |-> "ok", v |-> (a + MaxI32 + 1) + (b + MaxI32 + 1)]
         ELSE [res |-> "panic"]
    ELSE [res |-> "ok", v |-> a + b]

\* BlockChain::mine_block(txs) at time now: [res, bc, block]
MineBlock(bc, txs, now, wraps) ==
    LET v == VerifyAll(bc, txs, 1)
        h == I32Succ(GetBestHeight(bc), wraps)
    IN IF v # "ok" THEN [res |-> v, bc |-> bc]
       ELSE IF h.res # "ok" THEN [res |-> "panic", bc |-> bc]
       ELSE LET new_block == NewBlock(txs, bc.last, h.v, now)
            IN [res   |-> "ok",
                bc    |-> [db   |-> [x \in DOMAIN bc.db \cup {new_block.hash} |->
                                       IF x = new_block.hash THEN new_block ELSE bc.db[x]],
                           last |-> new_block.hash,
                           cur  |-> new_block.hash],
                block |-> new_block]

\* add_block without its early return on a stored hash (lines 92-94).
AddBlockAlways(bc, block) ==
    LET db == [x \in DOMAIN bc.db \cup {block.hash} |->
                 IF x = block.hash THEN block ELSE bc.db[x]]
        last_height == db[bc.last].height
    IN IF block.height > last_height
       THEN [db |-> db, last |-> block.hash, cur |-> block.hash]
       ELSE [db |-> db, last |-> bc.last, cur |-> bc.cur]

\* BlockChain::add_block(block)
AddBlock(bc, block) ==
    IF block.hash \in DOMAIN bc.db THEN bc
    ELSE LET db == [x \in DOMAIN bc.db \cup {block.hash} |->
                      IF x = block.hash THEN block ELSE bc.db[x]]
             last_height == db[bc.last].height
         IN IF block.height > last_height
            THEN [db |-> db, last |-> block.hash, cur |-> block.hash]
            ELSE [db |-> db, last |-> bc.last, cur |-> bc.cur]

\* The members of a sequence.
Range(seq) == { seq[i] : i \in DOMAIN seq }

\* HashMap / sled helpers
EmptyMap == [x \in {} |-> x]
Put(f, k, v) == [x \in DOMAIN f \cup {k} |-> IF x = k THEN v ELSE f[x]]
Remove(f, k) == [x \in DOMAIN f \ {k} |-> f[x]]
Contains(seq, v) == \E j \in DOMAIN seq : seq[j] = v
Push(f, k, v) == Put(f, k, (IF k \in DOMAIN f THEN f[k] ELSE <<>>) \o << v >>)

\* The output loop of find_utxo, lines 148-168, from 0-based position index.
RECURSIVE ScanOutputs(_, _, _, _)
ScanOutputs(utxos, spend_txos, tx, index) ==
    IF index >= Len(tx.vout) THEN utxos
    ELSE IF tx.id \in DOMAIN spend_txos /\ Contains(spend_txos[tx.id], index)
         THEN ScanOutputs(utxos, spend_txos, tx, index + 1)
    ELSE ScanOutputs(Push(utxos, tx.id, tx.vout[index + 1]), spend_txos, tx, index + 1)

\* The input loop of find_utxo, lines 170-181.
RECURSIVE ScanInputs(_, _, _)
ScanInputs(spend_txos, vin, k) ==
    IF k > Len(vin) THEN spend_txos
    ELSE ScanInputs(Push(spend_txos, vin[k].txid, vin[k].vout), vin, k + 1)

RECURSIVE ScanTxs(_, _, _)
ScanTxs(utxos, spend_txos, txs) ==
    IF txs = <<>> THEN utxos
    ELSE LET tx == Head(txs)
         IN ScanTxs(ScanOutputs(utxos, spend_txos, tx, 0),
                    IF IsCoinbase(tx) THEN spend_txos ELSE ScanInputs(spend_txos, tx.vin, 1),
                    Tail(txs))

\* BlockChain::find_utxo: txid -> outputs
FindUtxo(bc) == ScanTxs(EmptyMap, EmptyMap, ChainTxs(bc))

-----------------------------------------------------------------------------
(* utxoset.rs *)

\* Utxoset::reindex
Reindex(bc) == FindUtxo(bc)

\* outs without the output at 0-based position vout (lines 38-44).
RECURSIVE DropPosition(_, _, _)
DropPosition(outs, vout, out_idx) ==
    IF out_idx >= Len(outs) THEN <<>>
    ELSE (IF out_idx # vout THEN << outs[out_idx + 1] >> ELSE <<>>)
         \o DropPosition(outs, vout, out_idx + 1)

\* The input loop of update, lines 34-51: [res |-> "ok" | "panic", db].
RECURSIVE UpdateInputs(_, _, _)
UpdateInputs(db, vin, k) ==
    IF k > Len(vin) THEN [res |-> "ok", db |-> db]
    ELSE IF vin[k].txid \notin DOMAIN db THEN [res |-> "panic", db |-> db]
    ELSE LET update_outs == DropPosition(db[vin[k].txid], vin[k].vout, 0)
         IN UpdateInputs(IF update_outs = <<>> THEN Remove(db, vin[k].txid)
                         ELSE Put(db, vin[k].txid, update_outs),
                         vin, k + 1)

RECURSIVE UpdateTxs(_, _)
UpdateTxs(db, txs) ==
    IF txs = <<>> THEN [res |-> "ok", db |-> db]
    ELSE LET tx == Head(txs)
             r  == IF IsCoinbase(tx) THEN [res |-> "ok", db |-> db]
                   ELSE UpdateInputs(db, tx.vin, 1)
         IN IF r.res # "ok" THEN r
            ELSE UpdateTxs(Put(r.db, tx.id, tx.vout), Tail(txs))

\* Utxoset::update(block): every write reaches the store as it is made, so
\* a panic leaves the writes made before it.
Update(db, block) == UpdateTxs(db, block.transactions)

\* Utxoset::count_transaction
CountTransaction(db) == Cardinality(DOMAIN db)

\* The output loop of find_spendable_outputs, lines 89-101; accumulated is
\* an i32, res turns "panic" when "accumulated += value" overflows in a
\* debug build.
RECURSIVE SpendableOutputs(_, _, _, _, _, _, _)
SpendableOutputs(acc, txid, outs, address, amount, out_idx, wraps) ==
    IF out_idx >= Len(outs) \/ acc.res # "ok" THEN acc
    ELSE IF CanBeUnlockWith(outs[out_idx + 1], address) /\ acc.accumulated < amount
         THEN LET sum == I32Add(acc.accumulated, outs[out_idx + 1].value, wraps)
              IN IF sum.res # "ok" THEN [acc EXCEPT !.res = "panic"]
                 ELSE SpendableOutputs(
                          [res         |-> "ok",
                           accumulated |-> sum.v,
                           unspent     |-> Push(acc.unspent, txid, out_idx)],
                          txid, outs, address, amount, out_idx + 1, wraps)
    ELSE SpendableOutputs(acc, txid, outs, address, amount, out_idx + 1, wraps)

RECURSIVE SpendableFrom(_, _, _, _, _, _, _)
SpendableFrom(acc, db, order, address, amount, k, wraps) ==
    IF k > Len(order) THEN acc
    ELSE SpendableFrom(SpendableOutputs(acc, order[k], db[order[k]], address, amount, 0, wraps),
                       db, order, address, amount, k + 1, wraps)

\* Utxoset::find_spendable_outputs(address, amount); order is the order in
\* which db.iter() yields the keys (the order of the txid hex strings).
FindSpendableOutputs(db, order, address, amount, wraps) ==
    SpendableFrom([res |-> "ok", accumulated |-> 0, unspent |-> EmptyMap],
                  db, order, address, amount, 1, wraps)

RECURSIVE OutputsOf(_, _)
OutputsOf(outs, address) ==
    IF outs = <<>> THEN <<>>
    ELSE (IF CanBeUnlockWith(Head(outs), address) THEN << Head(outs) >> ELSE <<>>)
         \o OutputsOf(Tail(outs), address)

RECURSIVE FindUtxoFrom(_, _, _, _)
FindUtxoFrom(db, order, address, k) ==
    IF k > Len(order) THEN <<>>
    ELSE OutputsOf(db[order[k]], address) \o FindUtxoFrom(db, order, address, k + 1)

\* Utxoset::find_utxo(pub_key_hash)
UtxosetFindUtxo(db, order, address) == FindUtxoFrom(db, order, address, 1)

\* The orders in which a map's keys can be iterated.
Orders(S) == { p \in [1 .. Cardinality(S) -> S] : \A i, j \in 1 .. Cardinality(S) : p[i] = p[j] => i = j }

-----------------------------------------------------------------------------
(* transaction.rs: new_utxo *)

\* The inputs of lines 33-43 for one entry (txid, outs) of acc_v.1.
InputsOf(txid, outs, pub_key) ==
    [j \in DOMAIN outs |-> TXInput(txid, outs[j], <<>>, pub_key)]

RECURSIVE InputsFrom(_, _, _, _)
InputsFrom(unspent, perm, pub_key, k) ==
    IF k > Len(perm) THEN <<>>
    ELSE InputsOf(perm[k], unspent[perm[k]], pub_key) \o InputsFrom(unspent, perm, pub_key, k + 1)

\* Transaction::new_utxo(wallet, to, amount, ut): order is the key order of
\* the index scan, perm the iteration order of the HashMap acc_v.1.
\* [res |-> "ok", tx], or [res |-> "insufficient" | "err" | "panic"].
NewUtxo(bc, db, wallet, to, amount, order, perm, wraps) ==
    LET acc_v == FindSpendableOutputs(db, order, HashPubKey(PubKey(wallet)), amount, wraps)
        vin   == InputsFrom(acc_v.unspent, perm, PubKey(wallet), 1)
        vout  == << TXOutputNew(amount, to) >>
                 \o (IF acc_v.accumulated > amount
                     THEN << TXOutputNew(acc_v.accumulated - amount, wallet) >>
                     ELSE <<>>)
        tx    == [id |-> <<>>, vin |-> vin, vout |-> vout]
        r     == SignTransaction(bc, [tx EXCEPT !.id = TxHash(tx)], SecretKey(wallet))
    IN IF acc_v.res # "ok" THEN [res |-> "panic"]
       ELSE IF acc_v.accumulated < amount THEN [res |-> "insufficient"]
       ELSE r

-----------------------------------------------------------------------------
(* The ledger: one node's store and index under the calls of the command   *)
(* line (cli.rs) and the blocks peers hand to add_block.                   *)

Local == KNOWN_NODE_1

\* cmd_create_blockchain(address): create_blockchain, then reindex.
GenesisChain == CreateBlockchain(1, 0)

NetIdle ==
    /\ mempool = [n \in Nodes |-> EmptyMap]
    /\ known = [n \in Nodes |-> {KNOWN_NODE_1}]
    /\ transit = [n \in Nodes |-> <<>>]
    /\ msgs = EmptyBag
    /\ threads = EmptyBag

SvIdle == sv = [phase |-> "idle"]

Init ==
    /\ chain = [n \in Nodes |-> GenesisChain]
    /\ utxo = [n \in Nodes |-> Reindex(GenesisChain)]
    /\ pool = {}
    /\ clock = 0
    /\ wire = {}
    /\ sync = "synced"
    /\ hist = [op |-> "create"]
    /\ NetIdle
    /\ SvIdle

\* The wallet whose public key a transaction's inputs carry (cmd_send's from).
SenderOf(tx) == tx.vin[1].pub_key[2]

\* The lists of transactions handed to mine_block: one of the wallets'
\* transactions, alone or after a coinbase as cmd_send builds it (line 198).
MineLists ==
    { << t >> : t \in pool }
    \cup { << NewCoinbase(SenderOf(t), DataMiningReward), t >> : t \in pool }

\* A transaction a peer puts in a block without signing it: wallet 2 takes
\* the genesis output of wallet 1.
UnsignedSpend ==
    LET g  == NewCoinbase(1, DataGenesis)
        tx == [id   |-> <<>>,
               vin  |-> << TXInput(g.id, 0, <<>>, PubKey(2)) >>,
               vout |-> << TXOutputNew(Subsidy, 2) >>]
    IN [tx EXCEPT !.id = TxHash(tx)]

\* The blocks a peer can send on top of the local tip: add_block reads
\* neither the transactions nor the height against anything.
PeerHeights(bc) ==
    LET best == GetBestHeight(bc)
    IN {0, MaxI32} \cup (IF best < MaxI32 THEN {best + 1} ELSE {})

PeerBlocks(bc, now) ==
    { NewBlock(txs, bc.last, h, now) :
        txs \in {<<>>, << UnsignedSpend >>}, h \in PeerHeights(bc) }

\* Whether the build wraps on i32 overflow matters only at i32::MAX.
Builds(bc) == IF GetBestHeight(bc) = MaxI32 THEN BOOLEAN ELSE {FALSE}

LedgerNetUnchanged == UNCHANGED <<mempool, known, transit, msgs, threads, sv>>

\* Transaction::new_utxo called by a wallet (cmd_send, line 195).
CallNewUtxo ==
    \E w \in Wallets, to \in Wallets, amount \in Amounts :
    \E order \in Orders(DOMAIN utxo[Local]), wraps \in BOOLEAN :
    \E perm \in Orders(DOMAIN FindSpendableOutputs(utxo[Local], order,
                                HashPubKey(PubKey(w)), amount, wraps).unspent) :
        LET r == NewUtxo(chain[Local], utxo[Local], w, to, amount, order, perm, wraps)
        IN /\ r.res = "ok" => Cardinality(pool \cup {r.tx}) <= MaxPool
           /\ pool' = IF r.res = "ok" THEN pool \cup {r.tx} ELSE pool
           /\ hist' = [op |-> "new_utxo", res |-> r.res,
                       tx |-> IF r.res = "ok" THEN r.tx
                              ELSE [id |-> <<>>, vin |-> <<>>, vout |-> <<>>]]
           /\ UNCHANGED <<chain, utxo, clock, wire, sync>>
           /\ LedgerNetUnchanged

\* BlockChain::mine_block(txs)
MineBlockWith(lists) ==
    \E txs \in lists, wraps \in Builds(chain[Local]) :
        LET r == MineBlock(chain[Local], txs, clock + 1, wraps)
        IN /\ clock < MaxMined
           /\ chain' = [chain EXCEPT ![Local] = r.bc]
           /\ clock' = IF r.res = "ok" THEN clock + 1 ELSE clock
           /\ sync' = IF r.res # "ok" THEN sync
                      ELSE IF sync = "synced" THEN "behind" ELSE "stale"
           /\ hist' = [op |-> "mine_block", res |-> r.res, txs |-> txs,
                       block |-> IF r.res = "ok" THEN r.block ELSE chain[Local].db[chain[Local].last]]
           /\ UNCHANGED <<utxo, pool, wire>>
           /\ LedgerNetUnchanged

\* BlockChain::add_block(block) with a block received from a peer.
CallAddBlock ==
    \E b \in PeerBlocks(chain[Local], clock + 1) \cup wire :
        /\ Cardinality(wire \cup {b}) <= MaxPeerBlocks
        /\ wire' = wire \cup {b}
        /\ chain' = [chain EXCEPT ![Local] = AddBlock(chain[Local], b)]
        /\ sync' = IF chain'[Local] = chain[Local] THEN sync ELSE "stale"
        /\ hist' = [op |-> "add_block", block |-> b,
                    seen |-> b.hash \in DOMAIN chain[Local].db,
                    again |-> hist.op = "add_block" /\ hist.block = b]
        /\ UNCHANGED <<utxo, pool, clock>>
        /\ LedgerNetUnchanged

CallMineBlock == MineBlockWith(MineLists)

\* BlockChain::mine_block(vec![]): a block without transactions.
CallMineEmpty == MineBlockWith({<<>>})

\* Utxoset::update(&new_block) with the block mine_block just returned
\* (cmd_send, lines 199-200).
CallUpdate ==
    /\ hist.op = "mine_block" /\ hist.res = "ok"
    /\ LET r == Update(utxo[Local], hist.block)
       IN /\ utxo' = [utxo EXCEPT ![Local] = r.db]
          /\ sync' = IF r.res = "ok" /\ sync = "behind" THEN "synced" ELSE "stale"
          /\ hist' = [op |-> "update", res |-> r.res, block |-> hist.block, before |-> sync]
    /\ UNCHANGED <<chain, pool, clock, wire>>
    /\ LedgerNetUnchanged

\* Utxoset::reindex
CallReindex ==
    /\ hist.op # "reindex"
    /\ utxo' = [utxo EXCEPT ![Local] = Reindex(chain[Local])]
    /\ sync' = "synced"
    /\ hist' = [op |-> "reindex"]
    /\ UNCHANGED <<chain, pool, clock, wire>>
    /\ LedgerNetUnchanged

\* The sum of the values of a sequence of outputs.
RECURSIVE SumValues(_)
SumValues(outs) ==
    IF outs = <<>> THEN 0 ELSE Head(outs).value + SumValues(Tail(outs))

\* The getbalance command: the sum over find_utxo(pub_key_hash) of the
\* address's wallet.
GetBalance(db, w) ==
    SumValues(UtxosetFindUtxo(db, CHOOSE o \in Orders(DOMAIN db) : TRUE, AddressBody(w)))

\* cmd_send(from, to, amount, mine = true): new_utxo(..).unwrap(), then
\* mine_block(vec![cb_tx, tx])? and update(&new_block)?.
\* [res |-> "ok" | "panic" | "err" | "invalid", bc, db, mined]
CmdSendMine(bc, db, from, to, amount, order, perm, now, wraps) ==
    LET t     == NewUtxo(bc, db, from, to, amount, order, perm, wraps)
        cb_tx == NewCoinbase(from, DataMiningReward)
        m     == MineBlock(bc, << cb_tx, t.tx >>, now, wraps)
        u     == Update(db, m.block)
    IN IF t.res # "ok" THEN [res |-> "panic", bc |-> bc, db |-> db, mined |-> FALSE]
       ELSE IF m.res # "ok" THEN [res |-> m.res, bc |-> bc, db |-> db, mined |-> FALSE]
       ELSE [res |-> u.res, bc |-> m.bc, db |-> u.db, mined |-> TRUE]

\* The send command with -m (cli.rs, cmd_send).
CallSend ==
    \E from \in Wallets, to \in Wallets, amount \in Amounts :
    \E order \in Orders(DOMAIN utxo[Local]), wraps \in BOOLEAN :
    \E perm \in Orders(DOMAIN FindSpendableOutputs(utxo[Local], order,
                                HashPubKey(PubKey(from)), amount, wraps).unspent) :
        LET r == CmdSendMine(chain[Local], utxo[Local], from, to, amount,
                             order, perm, clock + 1, wraps)
        IN /\ clock < MaxMined
           /\ chain' = [chain EXCEPT ![Local] = r.bc]
           /\ utxo' = [utxo EXCEPT ![Local] = r.db]
           /\ clock' = IF r.mined THEN clock + 1 ELSE clock
           /\ sync' = IF ~r.mined THEN sync
                      ELSE IF r.res = "ok" /\ sync = "synced" THEN "synced" ELSE "stale"
           /\ hist' = [op |-> "send", res |-> r.res, from |-> from, to |-> to,
                       amount |-> amount,
                       consistent |-> utxo[Local] = Reindex(chain[Local]),
                       balance_from |-> GetBalance(utxo[Local], from),
                       balance_to |-> GetBalance(utxo[Local], to),
                       height |-> GetBestHeight(chain[Local])]
           /\ UNCHANGED <<pool, wire>>
           /\ LedgerNetUnchanged

\* One node driven from its command line: wallets create transactions, the
\* node mines them and maintains its index.
Next ==
    \/ CallNewUtxo
    \/ CallMineBlock
    \/ CallUpdate
    \/ CallReindex
    \/ CallSend

Spec == Init /\ [][Next]_vars

\* One node's store under the blocks peers send and the blocks it mines.
NextStore ==
    \/ CallAddBlock
    \/ CallMineEmpty

SpecStore == Init /\ [][NextStore]_vars

-----------------------------------------------------------------------------
(* Transaction::sign and Transaction::verify on drawn transactions *)

\* Two producing transactions: Producer1 pays wallet 1, Producer2 pays
\* wallet 2 and gives wallet 1 the change.
Producer1 == NewCoinbase(1, DataGenesis)

Producer2 ==
    LET tx == [id   |-> <<>>,
               vin  |-> << TXInput(Producer1.id, 0, <<>>, PubKey(1)) >>,
               vout |-> << TXOutputNew(30, 2), TXOutputNew(70, 1) >>]
    IN [tx EXCEPT !.id = TxHash(tx)]

DrawnPrevTxs == (Producer1.id :> Producer1) @@ (Producer2.id :> Producer2)

\* The outputs an input can reference.
DrawnRefs == { <<Producer1.id, 0>>, <<Producer2.id, 0>>, <<Producer2.id, 1>> }

\* A transaction of wallet w: each input carries w's public key.
DrawnTx(refs, w, to) ==
    LET tx == [id   |-> <<>>,
               vin  |-> [i \in DOMAIN refs |-> TXInput(refs[i][1], refs[i][2], <<>>, PubKey(w))],
               vout |-> << TXOutputNew(30, to) >>]
    IN [tx EXCEPT !.id = TxHash(tx)]

InitSign ==
    /\ chain = [n \in Nodes |-> GenesisChain]
    /\ utxo = [n \in Nodes |-> Reindex(GenesisChain)]
    /\ pool = {}
    /\ clock = 0
    /\ wire = {}
    /\ sync = "synced"
    /\ hist = [op |-> "create"]
    /\ NetIdle
    /\ \E n \in 1 .. MaxInputs : \E refs \in [1 .. n -> DrawnRefs] :
       \E w \in Wallets, to \in Wallets :
           sv = [phase |-> "drawn", tx |-> DrawnTx(refs, w, to),
                 prev_txs |-> DrawnPrevTxs, wallet |-> w]

\* tx.sign(private_key, prev_txs) with the wallet's secret key
CallSign ==
    /\ sv.phase = "drawn"
    /\ LET r == Sign(sv.tx, SecretKey(sv.wallet), sv.prev_txs)
       IN sv' = [phase |-> "signed", tx |-> r.tx, prev_txs |-> sv.prev_txs,
                 wallet |-> sv.wallet, res |-> r.res]
    /\ UNCHANGED <<chain, utxo, mempool, known, transit, msgs, threads, pool,
                   clock, wire, sync, hist>>

\* tx.verify(prev_txs), on a transaction as drawn or as signed
CallVerify ==
    /\ sv.phase \in {"drawn", "signed"}
    /\ sv' = [phase |-> "verified", tx |-> sv.tx, prev_txs |-> sv.prev_txs,
              wallet |-> sv.wallet,
              signed |-> (sv.phase = "signed" /\ sv.res = "ok"),
              res |-> Verify(sv.tx, sv.prev_txs)]
    /\ UNCHANGED <<chain, utxo, mempool, known, transit, msgs, threads, pool,
                   clock, wire, sync, hist>>

NextSign ==
    \/ CallSign
    \/ CallVerify

SpecSign == InitSign /\ [][NextSign]_vars

-----------------------------------------------------------------------------
(* utxoset.rs and new_utxo on drawn index contents *)

\* A transaction without real inputs that carries the given outputs, as a
\* peer can put it in a block.
DrawnMint(outs, data) ==
    LET tx == [id |-> <<>>, vin |-> << TXInput(<<>>, -1, <<>>, data) >>, vout |-> outs]
    IN [tx EXCEPT !.id = TxHash(tx)]

\* The genesis chain after add_block of a peer's block with one or two such
\* transactions: the outputs before the cut are those of the first, the
\* outputs after it those of the second.
DrawnChain(outs, cut) ==
    LET a == IF cut > 0 THEN << DrawnMint(SubSeq(outs, 1, cut), DataRewardTo(1)) >> ELSE <<>>
        b == IF cut < Len(outs)
             THEN << DrawnMint(SubSeq(outs, cut + 1, Len(outs)), DataRewardTo(2)) >>
             ELSE <<>>
    IN IF outs = <<>> THEN GenesisChain
       ELSE AddBlock(GenesisChain, NewBlock(a \o b, GenesisChain.last, 1, 1))

DrawnOutputs == { [value |-> v, pub_key_hash |-> AddressBody(w)] : v \in IndexValues, w \in Wallets }

\* The index is the one reindex builds from the drawn chain.
InitIndex ==
    /\ \E n \in 0 .. MaxIndexOutputs : \E outs \in [1 .. n -> DrawnOutputs] :
       \E cut \in 0 .. n :
           chain = [x \in Nodes |-> DrawnChain(outs, cut)]
    /\ utxo = [n \in Nodes |-> Reindex(chain[n])]
    /\ sv = [phase |-> "index", db |-> utxo[Local]]
    /\ pool = {}
    /\ clock = 1
    /\ wire = {}
    /\ sync = "synced"
    /\ hist = [op |-> "create"]
    /\ NetIdle

\* Utxoset::find_spendable_outputs(address, amount) on the drawn index
CallFindSpendableOutputs ==
    /\ sv.phase = "index"
    /\ \E w \in Wallets, amount \in IndexAmounts, wraps \in BOOLEAN :
       \E order \in Orders(DOMAIN sv.db) :
           sv' = [phase |-> "found", db |-> sv.db, address |-> HashPubKey(PubKey(w)),
                  amount |-> amount, order |-> order,
                  acc |-> FindSpendableOutputs(sv.db, order, HashPubKey(PubKey(w)),
                                               amount, wraps)]
    /\ UNCHANGED <<chain, utxo, mempool, known, transit, msgs, threads, pool,
                   clock, wire, sync, hist>>

\* Transaction::new_utxo(wallet, to, amount, ut) on the drawn chain and index
CallNewUtxoDrawn ==
    /\ sv.phase = "index"
    /\ \E w \in Wallets, to \in Wallets, amount \in IndexAmounts, wraps \in BOOLEAN :
       \E order \in Orders(DOMAIN sv.db) :
       \E perm \in Orders(DOMAIN FindSpendableOutputs(sv.db, order,
                                   HashPubKey(PubKey(w)), amount, wraps).unspent) :
           LET r == NewUtxo(chain[Local], sv.db, w, to, amount, order, perm, wraps)
           IN sv' = [phase |-> "built", db |-> sv.db, wallet |-> w, to |-> to,
                     amount |-> amount, order |-> order, wraps |-> wraps,
                     res |-> r.res,
                     tx |-> IF r.res = "ok" THEN r.tx ELSE [id |-> <<>>, vin |-> <<>>, vout |-> <<>>]]
    /\ UNCHANGED <<chain, utxo, mempool, known, transit, msgs, threads, pool,
                   clock, wire, sync, hist>>

NextIndex ==
    \/ CallFindSpendableOutputs
    \/ CallNewUtxoDrawn

SpecIndex == InitIndex /\ [][NextIndex]_vars

-----------------------------------------------------------------------------
(* block.rs: new_block on drawn inputs *)

\* The transaction lists, previous hashes and heights new_block is given.
DrawnLists == UNION { [1 .. n -> {Producer1, Producer2, UnsignedSpend}] : n \in 0 .. MaxBlockTxs }
DrawnPrevHashes == {<<>>, GenesisChain.last}
DrawnHeights == {0, 1, MaxI32}

InitPow ==
    /\ chain = [n \in Nodes |-> GenesisChain]
    /\ utxo = [n \in Nodes |-> Reindex(GenesisChain)]
    /\ pool = {}
    /\ clock = 0
    /\ wire = {}
    /\ sync = "synced"
    /\ hist = [op |-> "create"]
    /\ NetIdle
    /\ \E data \in DrawnLists, prev \in DrawnPrevHashes, height \in DrawnHeights,
          now \in 0 .. MaxMined :
           sv = [phase |-> "pow", data |-> data, prev_block_hash |-> prev,
                 height |-> height, now |-> now]

\* Block::new_block(data, prev_block_hash, height)
CallNewBlock ==
    /\ sv.phase = "pow"
    /\ sv' = [phase |-> "block", data |-> sv.data, prev_block_hash |-> sv.prev_block_hash,
              height |-> sv.height, now |-> sv.now,
              block |-> NewBlock(sv.data, sv.prev_block_hash, sv.height, sv.now)]
    /\ UNCHANGED <<chain, utxo, mempool, known, transit, msgs, threads, pool,
                   clock, wire, sync, hist>>

NextPow ==
    \/ CallNewBlock

SpecPow == InitPow /\ [][NextPow]_vars

-----------------------------------------------------------------------------
(* server.rs: the bootstrap node N0 (KNOWN_NODE_1), the node N1 started    *)
(* with a mining address, and the client of cmd_send.  handle_connection   *)
(* runs on a thread of its own for every frame; a step of a thread is what *)
(* it does under one acquisition of the ServerInner mutex, together with   *)
(* the frames it writes before the next acquisition.                       *)

\* Server::send_transaction builds its Server on port 7000.
Client == "C"
Miner == "N1"

\* Server.mining_address: both nodes are started with startminer, the
\* bootstrap node for wallet 1 and the miner for wallet 2; 0 is the empty
\* string of startnode.
MiningAddress(n) == IF n = Miner THEN 2 ELSE 1

\* A chain of k blocks without transactions mined on bc at times 1 .. k.
RECURSIVE GrowChain(_, _)
GrowChain(bc, k) ==
    IF k = 0 THEN bc
    ELSE MineBlock(GrowChain(bc, k - 1), <<>>, k, FALSE).bc

\* send_data(addr, data): nothing is written to the node's own address.
\* Every address a handler writes to here listens, so connect succeeds.
SendData(node, addr, kind, body) ==
    IF addr = node THEN EmptyBag
    ELSE SetToBag({[to |-> addr, kind |-> kind, from |-> node, body |-> body]})

SendVersion(node, addr) ==
    SendData(node, addr, "version",
             [version |-> VERSION, best_height |-> GetBestHeight(chain[node])])

\* A relay that announces nothing.
SendInvNone(node, addrs, kind, items) == EmptyBag

\* inv frames to every node of a set (the loops of handle_tx).
RECURSIVE SendInvAll(_, _, _, _)
SendInvAll(node, addrs, kind, items) ==
    IF addrs = {} THEN EmptyBag
    ELSE LET a == CHOOSE x \in addrs : TRUE
         IN SendData(node, a, "inv", [kind |-> kind, items |-> items])
            (+) SendInvAll(node, addrs \ {a}, kind, items)

\* The frames a node can read, and the threads between two steps.
Frames(kind) == { m \in BagToSet(msgs) : m.kind = kind }
Threads(kind) == { t \in BagToSet(threads) : t.kind = kind }
Take(bag, x) == bag (-) SetToBag({x})

\* A frame is read into a new handler thread while fewer than MaxThreads
\* handler threads are between two steps.
Running == BagCardinality(threads (-) SetToBag(Threads("start")))
MayRun == Running < MaxThreads

\* The transaction the client sends: wallet 1 pays 30 to wallet 2 out of the
\* genesis output (cmd_send: new_utxo on the client's copy of the store).
ClientTx ==
    LET db == Reindex(GenesisChain)
        o  == CHOOSE x \in Orders(DOMAIN db) : TRUE
    IN NewUtxo(GenesisChain, db, 1, 2, 30, o, o, FALSE).tx

InitNet ==
    /\ \E h \in 0 .. MaxChain :
          /\ chain = [n \in Nodes |->
                        IF n = KNOWN_NODE_1 THEN GrowChain(GenesisChain, h) ELSE GenesisChain]
          /\ clock = h
    /\ utxo = [n \in Nodes |-> Reindex(chain[n])]
    /\ mempool = [n \in Nodes |-> EmptyMap]
    /\ known = [n \in Nodes |-> {KNOWN_NODE_1}]
    /\ transit = [n \in Nodes |-> <<>>]
    /\ msgs = EmptyBag
    /\ threads = SetToBag({ [kind |-> "start", node |-> n] : n \in Nodes })
    /\ pool = {}
    /\ wire = {}
    /\ sync = "synced"
    /\ hist = [op |-> "create"]
    /\ SvIdle

\* request_blocks: send_get_blocks to every known node.
RECURSIVE GetBlocksAll(_, _)
GetBlocksAll(node, addrs) ==
    IF addrs = {} THEN EmptyBag
    ELSE LET a == CHOOSE x \in addrs : TRUE
         IN SendData(node, a, "getblock", <<>>) (+) GetBlocksAll(node, addrs \ {a})

RequestBlocks(node) == GetBlocksAll(node, known[node])

\* The thread Server::start spawns, after its sleep (lines 127-134).
StartNode ==
    \E t \in Threads("start") :
        /\ msgs' = msgs (+) (IF GetBestHeight(chain[t.node]) = -1
                             THEN RequestBlocks(t.node)
                             ELSE SendVersion(t.node, KNOWN_NODE_1))
        /\ threads' = Take(threads, t)
        /\ UNCHANGED <<chain, utxo, mempool, known, transit, pool, clock, wire, sync, hist, sv>>

\* cmd_send without -m: Server::send_transaction(&tx, utxo_set).  The client
\* sends once, when the nodes are idle.
ClientSend ==
    /\ pool = {}
    /\ msgs = EmptyBag /\ threads = EmptyBag
    /\ pool' = {ClientTx}
    /\ msgs' = msgs (+) SendData(Client, KNOWN_NODE_1, "tx", ClientTx)
    /\ hist' = [op |-> "send_transaction",
                known |-> Miner \in known[KNOWN_NODE_1],
                synced |-> chain[Miner] = chain[KNOWN_NODE_1],
                height |-> GetBestHeight(chain[KNOWN_NODE_1])]
    /\ UNCHANGED <<chain, utxo, mempool, known, transit, threads, clock, wire, sync, sv>>

\* handle_version with the comparison of the heights the wrong way round.
HandleVersionReversed ==
    \E m \in Frames("version") :
        LET n == m.to
            my_best_height == GetBestHeight(chain[n])
            reply == IF my_best_height > m.body.best_height
                     THEN SendData(n, m.from, "getblock", <<>>)
                     ELSE IF my_best_height < m.body.best_height
                     THEN SendVersion(n, m.from)
                     ELSE EmptyBag
        IN /\ msgs' = Take(msgs, m) (+) reply (+) SendData(n, m.from, "addr", known[n])
           /\ known' = [known EXCEPT ![n] = @ \cup {m.from}]
           /\ UNCHANGED <<chain, utxo, mempool, transit, threads, pool, clock, wire, sync, hist, sv>>

\* Server::handle_version
HandleVersion ==
    \E m \in Frames("version") :
        LET n == m.to
            my_best_height == GetBestHeight(chain[n])
            reply == IF my_best_height < m.body.best_height
                     THEN SendData(n, m.from, "getblock", <<>>)
                     ELSE IF my_best_height > m.body.best_height
                     THEN SendVersion(n, m.from)
                     ELSE EmptyBag
        IN /\ msgs' = Take(msgs, m) (+) reply (+) SendData(n, m.from, "addr", known[n])
           /\ known' = [known EXCEPT ![n] = @ \cup {m.from}]
           /\ UNCHANGED <<chain, utxo, mempool, transit, threads, pool, clock, wire, sync, hist, sv>>

\* Server::handle_addr
HandleAddr ==
    \E m \in Frames("addr") :
        /\ msgs' = Take(msgs, m)
        /\ known' = [known EXCEPT ![m.to] = @ \cup m.body]
        /\ UNCHANGED <<chain, utxo, mempool, transit, threads, pool, clock, wire, sync, hist, sv>>

\* Server::handle_get_block
HandleGetBlock ==
    \E m \in Frames("getblock") :
        /\ msgs' = Take(msgs, m)
                   (+) SendData(m.to, m.from, "inv",
                                [kind |-> "block", items |-> GetBlockHashes(chain[m.to])])
        /\ UNCHANGED <<chain, utxo, mempool, known, transit, threads, pool, clock, wire, sync, hist, sv>>

\* Server::handle_get_data: get_block fails on an unknown hash, and
\* get_mempool_tx(..).unwrap() panics on an unknown id; the thread ends.
HandleGetData ==
    \E m \in Frames("getdata") :
        LET n == m.to
            reply == IF m.body.kind = "block"
                     THEN IF m.body.id \in DOMAIN chain[n].db
                          THEN SendData(n, m.from, "block", chain[n].db[m.body.id])
                          ELSE EmptyBag
                     ELSE IF m.body.kind = "tx" /\ m.body.id \in DOMAIN mempool[n]
                          THEN SendData(n, m.from, "tx", mempool[n][m.body.id])
                          ELSE EmptyBag
        IN /\ msgs' = Take(msgs, m) (+) reply
           /\ UNCHANGED <<chain, utxo, mempool, known, transit, threads, pool, clock, wire, sync, hist, sv>>

\* Server::handle_inv up to its first read of blocks_in_transit: the
\* getdata for items[0] is written before anything else (lines 315-316).
HandleInv ==
    \E m \in Frames("inv") :
        LET n == m.to
            tx_id == m.body.items[1]
        IN /\ m.body.items # <<>>
           /\ MayRun
           /\ IF m.body.kind = "block"
              THEN /\ msgs' = Take(msgs, m)
                              (+) SendData(n, m.from, "getdata", [kind |-> "block", id |-> tx_id])
                   /\ threads' = threads (+) SetToBag({[kind |-> "inv", node |-> n,
                                     items |-> m.body.items, k |-> 1, new_in_transit |-> <<>>]})
              ELSE /\ msgs' = Take(msgs, m)
                              (+) (IF m.body.kind = "tx"
                                      /\ (tx_id \notin DOMAIN mempool[n] \/ mempool[n][tx_id].id = <<>>)
                                   THEN SendData(n, m.from, "getdata", [kind |-> "tx", id |-> tx_id])
                                   ELSE EmptyBag)
                   /\ threads' = threads
           /\ UNCHANGED <<chain, utxo, mempool, known, transit, pool, clock, wire, sync, hist, sv>>

\* The rest of handle_inv: one get_in_transit() per item (lines 320-324),
\* then replace_in_transit (line 325).
StepInv ==
    \E t \in Threads("inv") :
        /\ IF t.k <= Len(t.items)
           THEN /\ threads' = Take(threads, t) (+) SetToBag({[t EXCEPT
                      !.k = t.k + 1,
                      !.new_in_transit =
                          IF t.items[t.k] \in Range(transit[t.node]) THEN @
                          ELSE @ \o << t.items[t.k] >>]})
                /\ transit' = transit
           ELSE /\ threads' = Take(threads, t)
                /\ transit' = [transit EXCEPT ![t.node] = t.new_in_transit]
        /\ UNCHANGED <<chain, utxo, mempool, known, msgs, pool, clock, wire, sync, hist, sv>>

\* Server::handle_block up to self.add_block(msg.block) (line 187).
HandleBlock ==
    \E m \in Frames("block") :
        /\ MayRun
        /\ msgs' = Take(msgs, m)
        /\ chain' = [chain EXCEPT ![m.to] = AddBlock(chain[m.to], m.body)]
        /\ threads' = threads (+) SetToBag({[kind |-> "block", node |-> m.to,
                                             from |-> m.from, pc |-> "read", in_transit |-> <<>>]})
        /\ UNCHANGED <<utxo, mempool, known, transit, pool, clock, wire, sync, hist, sv>>

\* The rest of handle_block: get_in_transit (line 189), then either the
\* getdata for in_transit[0] and replace_in_transit, or utxo_reindex.
StepBlock ==
    \E t \in Threads("block") :
        LET n == t.node
        IN /\ CASE t.pc = "read" /\ Len(transit[n]) > 0 ->
                    /\ msgs' = msgs (+) SendData(n, t.from, "getdata",
                                                 [kind |-> "block", id |-> transit[n][1]])
                    /\ threads' = Take(threads, t) (+) SetToBag({[t EXCEPT
                                      !.pc = "write", !.in_transit = Tail(transit[n])]})
                    /\ UNCHANGED <<transit, utxo>>
                [] t.pc = "read" /\ Len(transit[n]) = 0 ->
                    /\ threads' = Take(threads, t) (+) SetToBag({[t EXCEPT !.pc = "reindex"]})
                    /\ UNCHANGED <<msgs, transit, utxo>>
                [] t.pc = "write" ->
                    /\ transit' = [transit EXCEPT ![n] = t.in_transit]
                    /\ threads' = Take(threads, t)
                    /\ UNCHANGED <<msgs, utxo>>
                [] t.pc = "reindex" ->
                    /\ utxo' = [utxo EXCEPT ![n] = Reindex(chain[n])]
                    /\ threads' = Take(threads, t)
                    /\ UNCHANGED <<msgs, transit>>
           /\ UNCHANGED <<chain, mempool, known, pool, clock, wire, sync, hist, sv>>

\* Server::handle_tx up to insert_mempool (line 255).
HandleTx ==
    \E m \in Frames("tx") :
        /\ MayRun
        /\ msgs' = Take(msgs, m)
        /\ mempool' = [mempool EXCEPT ![m.to] = Put(@, m.body.id, m.body)]
        /\ threads' = threads (+) SetToBag({[kind |-> "tx", node |-> m.to, from |-> m.from,
                             tx |-> m.body, pc |-> "known", mempool |-> EmptyMap,
                             order |-> <<>>, k |-> 1, txs |-> <<>>, hash |-> <<>>]})
        /\ UNCHANGED <<chain, utxo, known, transit, pool, clock, wire, sync, hist, sv>>

\* The local mempool of handle_tx after "for tx in &txs { mempool.remove }".
RECURSIVE RemoveAll(_, _)
RemoveAll(map, txs) ==
    IF txs = <<>> THEN map ELSE RemoveAll(Remove(map, Head(txs).id), Tail(txs))

\* Where the loop of handle_tx goes once the local mempool is verified:
\* it returns on an empty list, else it adds the coinbase and mines.
AfterVerify(t, txs) ==
    IF txs = <<>> THEN {}
    ELSE LET cb_tx == NewCoinbase(MiningAddress(t.node), <<>>)
             all   == txs \o << cb_tx >>
         IN {[t EXCEPT !.pc = "mine", !.txs = all, !.mempool = RemoveAll(t.mempool, all)]}

\* The rest of handle_tx, lines 257-308.
StepTx ==
    \E t \in Threads("tx") :
        LET n == t.node
            rest == Take(threads, t)
        IN /\ CASE t.pc = "known" ->
                   \* get_known_nodes; the bootstrap node relays and is done
                   /\ msgs' = msgs (+) (IF n = KNOWN_NODE_1
                                        THEN SendInvAll(n, known[n] \ {n, t.from}, "tx", << t.tx.id >>)
                                        ELSE EmptyBag)
                   /\ threads' = IF n = KNOWN_NODE_1 THEN rest
                                 ELSE rest (+) SetToBag({[t EXCEPT !.pc = "mempool"]})
                   /\ UNCHANGED <<chain, utxo, mempool, clock>>
                [] t.pc = "mempool" ->
                   \* get_mempool; the order is that of the HashMap's iterator
                   /\ \E order \in Orders(DOMAIN mempool[n]) :
                         threads' = IF order # <<>> /\ MiningAddress(n) # 0
                                    THEN rest (+) SetToBag({[t EXCEPT !.pc = "verify",
                                              !.mempool = mempool[n], !.order = order]})
                                    ELSE rest
                   /\ UNCHANGED <<chain, utxo, mempool, clock, msgs>>
                [] t.pc = "verify" ->
                   \* verify_tx(tx)? on the next transaction of the local mempool
                   /\ LET r   == VerifyTransaction(chain[n], t.mempool[t.order[t.k]])
                          txs == IF r = "true" THEN t.txs \o << t.mempool[t.order[t.k]] >> ELSE t.txs
                      IN threads' =
                           IF r \notin {"true", "false"} THEN rest
                           ELSE IF t.k < Len(t.order)
                           THEN rest (+) SetToBag({[t EXCEPT !.k = t.k + 1, !.txs = txs]})
                           ELSE rest (+) SetToBag(AfterVerify(t, txs))
                   /\ UNCHANGED <<chain, utxo, mempool, clock, msgs>>
                [] t.pc = "mine" ->
                   \* self.mine_block(txs)?
                   /\ \E wraps \in Builds(chain[n]) :
                         LET r == MineBlock(chain[n], t.txs, clock + 1, wraps)
                         IN /\ chain' = [chain EXCEPT ![n] = r.bc]
                            /\ clock' = IF r.res = "ok" THEN clock + 1 ELSE clock
                            /\ threads' = IF r.res # "ok" THEN rest
                                          ELSE rest (+) SetToBag({[t EXCEPT !.pc = "reindex",
                                                                     !.hash = r.block.hash]})
                   /\ UNCHANGED <<utxo, mempool, msgs>>
                [] t.pc = "reindex" ->
                   /\ utxo' = [utxo EXCEPT ![n] = Reindex(chain[n])]
                   /\ threads' = rest (+) SetToBag({[t EXCEPT !.pc = "notify"]})
                   /\ UNCHANGED <<chain, mempool, clock, msgs>>
                [] t.pc = "notify" ->
                   \* get_known_nodes and the inv of the new block, then the
                   \* loop ends on an empty local mempool
                   /\ msgs' = msgs (+) SendInvAll(n, known[n] \ {n}, "block", << t.hash >>)
                   /\ \E order \in Orders(DOMAIN t.mempool) :
                         threads' = rest (+) SetToBag({
                             IF order = <<>> THEN [t EXCEPT !.pc = "clear"]
                             ELSE [t EXCEPT !.pc = "verify", !.order = order, !.k = 1, !.txs = <<>>]})
                   /\ UNCHANGED <<chain, utxo, mempool, clock>>
                [] t.pc = "clear" ->
                   /\ mempool' = [mempool EXCEPT ![n] = EmptyMap]
                   /\ threads' = rest
                   /\ UNCHANGED <<chain, utxo, clock, msgs>>
           /\ UNCHANGED <<known, transit, pool, wire, sync, hist, sv>>

NextNet ==
    \/ StartNode
    \/ ClientSend
    \/ HandleVersion
    \/ HandleAddr
    \/ HandleGetBlock
    \/ HandleGetData
    \/ HandleInv
    \/ StepInv
    \/ HandleBlock
    \/ StepBlock
    \/ HandleTx
    \/ StepTx

SpecNet == InitNet /\ [][NextNet]_vars

-----------------------------------------------------------------------------
(* blockchain.rs: mine_block on drawn transaction lists *)

\* A signed spend whose input names a transaction that is not on the chain.
MissingPrevSpend ==
    LET tx == [id   |-> <<>>,
               vin  |-> << TXInput(Producer2.id, 0, <<>>, PubKey(2)) >>,
               vout |-> << TXOutputNew(30, 1) >>]
    IN Sign([tx EXCEPT !.id = TxHash(tx)], SecretKey(2), DrawnPrevTxs).tx

\* A spend whose input names an output position the genesis coinbase does
\* not have.
OutOfRangeSpend ==
    LET tx == [id   |-> <<>>,
               vin  |-> << TXInput(Producer1.id, 1, <<>>, PubKey(1)) >>,
               vout |-> << TXOutputNew(30, 2) >>]
    IN [tx EXCEPT !.id = TxHash(tx)]

\* A second valid spend of the genesis output: wallet 1 pays itself.
SelfSpend ==
    LET db == Reindex(GenesisChain)
        o  == CHOOSE x \in Orders(DOMAIN db) : TRUE
    IN NewUtxo(GenesisChain, db, 1, 1, 30, o, o, FALSE).tx

\* The transactions of the lists: two valid spends, a spend without
\* signature, the two above, and a coinbase as cmd_send and handle_tx add it.
DrawnMineTxs ==
    {ClientTx, SelfSpend, UnsignedSpend, MissingPrevSpend, OutOfRangeSpend,
     NewCoinbase(1, DataMiningReward)}

DrawnMineLists == UNION { [1 .. n -> DrawnMineTxs] : n \in 0 .. MaxBlockTxs }

\* The store mine_block is called on: genesis and up to MaxChain blocks.
InitMine ==
    /\ \E h \in 0 .. MaxChain :
          /\ chain = [n \in Nodes |-> GrowChain(GenesisChain, h)]
          /\ clock = h
    /\ utxo = [n \in Nodes |-> Reindex(chain[n])]
    /\ pool = {}
    /\ wire = {}
    /\ sync = "synced"
    /\ hist = [op |-> "create"]
    /\ NetIdle
    /\ SvIdle

\* BlockChain::mine_block(txs) with a drawn list, once
CallMineDrawn ==
    /\ hist.op = "create"
    /\ MineBlockWith(DrawnMineLists)

NextMine ==
    \/ CallMineDrawn

SpecMine == InitMine /\ [][NextMine]_vars

-----------------------------------------------------------------------------
(* server.rs: one handle_tx pass of the miner on drawn stores and mempools *)

\* A transaction whose id field is the empty string, in a block a peer sent:
\* handle_block hands every block to add_block, which reads neither the
\* transactions nor their ids.
EmptyIdTx ==
    [id   |-> <<>>,
     vin  |-> << TXInput(<<>>, -1, <<>>, DataRewardTo(2)) >>,
     vout |-> << TXOutputNew(Subsidy, 2) >>]

\* The genesis chain after add_block of a peer's block holding EmptyIdTx.
ChainWithEmptyId ==
    AddBlock(GenesisChain, NewBlock(<< EmptyIdTx >>, GenesisChain.last, 1, 1))

\* The transactions of the miner's mempool and of the tx frame it reads.
DrawnPassTxs == {ClientTx, UnsignedSpend, MissingPrevSpend}

\* The mempool holding the transactions of a set under their ids.
MempoolOf(txs) == [id \in { t.id : t \in txs } |-> CHOOSE t \in txs : t.id = id]

InitPass ==
    /\ \E bc \in {GenesisChain, ChainWithEmptyId} :
          chain = [n \in Nodes |-> IF n = Miner THEN bc ELSE GenesisChain]
    /\ utxo = [n \in Nodes |-> Reindex(chain[n])]
    /\ \E txs \in SUBSET DrawnPassTxs :
          mempool = [n \in Nodes |-> IF n = Miner THEN MempoolOf(txs) ELSE EmptyMap]
    /\ known = [n \in Nodes |-> Nodes]
    /\ transit = [n \in Nodes |-> <<>>]
    /\ \E tx \in DrawnPassTxs :
       \E route \in {<<KNOWN_NODE_1, Miner>>, <<Miner, KNOWN_NODE_1>>, <<Client, KNOWN_NODE_1>>} :
          msgs = SendData(route[1], route[2], "tx", tx)
    /\ threads = EmptyBag
    /\ pool = {}
    /\ clock = 1
    /\ wire = {}
    /\ sync = "synced"
    /\ hist = [op |-> "create"]
    /\ SvIdle

NextPass ==
    \/ HandleTx
    \/ StepTx

SpecPass == InitPass /\ [][NextPass]_vars

-----------------------------------------------------------------------------
(* cli.rs: the send command with -m and the reindex command on a store that
   may have taken a peer's block *)

InitSend ==
    /\ \E bc \in {GenesisChain, ChainWithEmptyId}, h \in 0 .. MaxChain :
          chain = [n \in Nodes |-> GrowChain(bc, h)]
    /\ utxo = [n \in Nodes |-> Reindex(chain[n])]
    /\ pool = {}
    /\ clock = 1
    /\ wire = {}
    /\ sync = "synced"
    /\ hist = [op |-> "create"]
    /\ NetIdle
    /\ SvIdle

NextSend ==
    \/ CallSend
    \/ CallReindex

SpecSend == InitSend /\ [][NextSend]_vars

-----------------------------------------------------------------------------
(* server.rs: an inv of kind "block" read while a download is under way *)

\* The hashes of the blocks the bootstrap node answers getblocks with.
DrawnHashes == Range(GetBlockHashes(GrowChain(GenesisChain, MaxChain)))

\* A node that has asked the bootstrap node for its blocks holds some of the
\* announced hashes in blocks_in_transit when the next inv reaches it.
InitInv ==
    /\ chain = [n \in Nodes |->
                  IF n = KNOWN_NODE_1 THEN GrowChain(GenesisChain, MaxChain) ELSE GenesisChain]
    /\ utxo = [n \in Nodes |-> Reindex(chain[n])]
    /\ mempool = [n \in Nodes |-> EmptyMap]
    /\ known = [n \in Nodes |-> Nodes]
    /\ \E n \in 0 .. MaxInTransit : \E in_transit \in [1 .. n -> DrawnHashes] :
          transit = [x \in Nodes |-> IF x = Miner THEN in_transit ELSE <<>>]
    /\ \E n \in 1 .. MaxInvItems : \E items \in [1 .. n -> DrawnHashes] :
          msgs = SendData(KNOWN_NODE_1, Miner, "inv", [kind |-> "block", items |-> items])
    /\ threads = EmptyBag
    /\ pool = {}
    /\ clock = MaxChain
    /\ wire = {}
    /\ sync = "synced"
    /\ hist = [op |-> "create"]
    /\ SvIdle

NextInv ==
    \/ HandleInv
    \/ StepInv

SpecInv == InitInv /\ [][NextInv]_vars

-----------------------------------------------------------------------------
(* server.rs: the nodes when the bootstrap node's chain holds a transaction
   and a peer may stop listening *)

\* The bootstrap node has mined the client's transaction (mine_block with a
\* list that holds no coinbase) and h blocks on top of it.
InitSettle ==
    /\ \E h \in 0 .. MaxChain - 1 :
          /\ chain = [n \in Nodes |->
                        IF n = KNOWN_NODE_1
                        THEN GrowChain(MineBlock(GenesisChain, << ClientTx >>, 0, FALSE).bc, h)
                        ELSE GenesisChain]
          /\ clock = h
    /\ utxo = [n \in Nodes |-> Reindex(chain[n])]
    /\ mempool = [n \in Nodes |-> EmptyMap]
    /\ known = [n \in Nodes |-> {KNOWN_NODE_1}]
    /\ transit = [n \in Nodes |-> <<>>]
    /\ msgs = EmptyBag
    /\ threads = SetToBag({ [kind |-> "start", node |-> n] : n \in Nodes })
    /\ pool = {}
    /\ wire = {}
    /\ sync = "synced"
    /\ hist = [op |-> "create"]
    /\ SvIdle

\* send_data that leaves the peer among the known nodes when the connect
\* fails.
ConnectFailsKeepsPeer(node, addr) ==
    /\ addr # node
    /\ known' = known
    /\ hist' = [op |-> "connect_failed", node |-> node, peer |-> addr,
                again |-> IF hist.op = "connect_failed" THEN ~hist.again ELSE FALSE]

\* send_data when TcpStream::connect(addr) fails: remove_node(addr), Ok(()).
\* Nothing is written; the caller goes on as after a send.
ConnectFails(node, addr) ==
    /\ addr # node
    /\ known' = [known EXCEPT ![node] = @ \ {addr}]
    /\ hist' = [op |-> "connect_failed", node |-> node, peer |-> addr,
                again |-> IF hist.op = "connect_failed" THEN ~hist.again ELSE FALSE]

\* The thread of Server::start when the bootstrap node does not listen.
StartNodeFails ==
    \E t \in Threads("start") :
        /\ GetBestHeight(chain[t.node]) # -1
        /\ ConnectFails(t.node, KNOWN_NODE_1)
        /\ threads' = Take(threads, t)
        /\ UNCHANGED <<chain, utxo, mempool, transit, msgs, pool, clock, wire, sync, sv>>

\* handle_get_block when the asking peer has stopped listening.
HandleGetBlockFails ==
    \E m \in Frames("getblock") :
        /\ ConnectFails(m.to, m.from)
        /\ msgs' = Take(msgs, m)
        /\ UNCHANGED <<chain, utxo, mempool, transit, threads, pool, clock, wire, sync, sv>>

\* handle_get_data for a block of the store when the asking peer has
\* stopped listening.
HandleGetDataFails ==
    \E m \in Frames("getdata") :
        /\ m.body.kind = "block" /\ m.body.id \in DOMAIN chain[m.to].db
        /\ ConnectFails(m.to, m.from)
        /\ msgs' = Take(msgs, m)
        /\ UNCHANGED <<chain, utxo, mempool, transit, threads, pool, clock, wire, sync, sv>>

\* handle_inv of kind "block" when the announcing peer has stopped
\* listening: the handler goes on to blocks_in_transit.
HandleInvFails ==
    \E m \in Frames("inv") :
        /\ m.body.items # <<>> /\ m.body.kind = "block"
        /\ MayRun
        /\ ConnectFails(m.to, m.from)
        /\ msgs' = Take(msgs, m)
        /\ threads' = threads (+) SetToBag({[kind |-> "inv", node |-> m.to,
                          items |-> m.body.items, k |-> 1, new_in_transit |-> <<>>]})
        /\ UNCHANGED <<chain, utxo, mempool, transit, pool, clock, wire, sync, sv>>

\* handle_block when the getdata for the head of blocks_in_transit cannot be
\* sent: the head is removed all the same.
StepBlockFails ==
    \E t \in Threads("block") :
        /\ t.pc = "read" /\ Len(transit[t.node]) > 0
        /\ ConnectFails(t.node, t.from)
        /\ threads' = Take(threads, t) (+) SetToBag({[t EXCEPT
                          !.pc = "write", !.in_transit = Tail(transit[t.node])]})
        /\ UNCHANGED <<chain, utxo, mempool, transit, msgs, pool, clock, wire, sync, sv>>

NextSettle ==
    \/ NextNet
    \/ StartNodeFails
    \/ HandleGetBlockFails
    \/ HandleGetDataFails
    \/ HandleInvFails
    \/ StepBlockFails

SpecSettle == InitSettle /\ [][NextSettle]_vars

-----------------------------------------------------------------------------
(* blockchain.rs: find_utxo on chains that hold blocks taken from peers *)

\* The chain after the client's transaction has been mined, and the two
\* transactions wallets build on it: wallet 2 spends output 0 of the
\* client's transaction, wallet 1 spends its change, output 1.
ClientChain == MineBlock(GenesisChain, << ClientTx >>, 1, FALSE).bc

SpendOfPayment ==
    LET db == Reindex(ClientChain)
        o  == CHOOSE x \in Orders(DOMAIN db) : TRUE
    IN NewUtxo(ClientChain, db, 2, 1, 30, o, o, FALSE).tx

SpendOfChange ==
    LET db == Reindex(ClientChain)
        o  == CHOOSE x \in Orders(DOMAIN db) : TRUE
    IN NewUtxo(ClientChain, db, 1, 2, 30, o, o, FALSE).tx

DrawnScanLists ==
    UNION { [1 .. n -> {ClientTx, SpendOfPayment, SpendOfChange}] : n \in 0 .. MaxBlockTxs }

\* The genesis chain after add_block of two blocks a peer sends, each with
\* a drawn list of these transactions.
InitScan ==
    /\ \E txs1 \in DrawnScanLists, txs2 \in DrawnScanLists :
          LET b1 == NewBlock(txs1, GenesisChain.last, 1, 1)
              b2 == NewBlock(txs2, b1.hash, 2, 2)
          IN chain = [n \in Nodes |-> AddBlock(AddBlock(GenesisChain, b1), b2)]
    /\ utxo = [n \in Nodes |-> Reindex(GenesisChain)]
    /\ pool = {}
    /\ clock = 2
    /\ wire = {}
    /\ sync = "stale"
    /\ hist = [op |-> "create"]
    /\ NetIdle
    /\ SvIdle

\* BlockChain::find_utxo()
CallFindUtxo ==
    /\ sv.phase = "idle"
    /\ sv' = [phase |-> "scanned", utxos |-> FindUtxo(chain[Local])]
    /\ UNCHANGED <<chain, utxo, mempool, known, transit, msgs, threads, pool,
                   clock, wire, sync, hist>>

NextScan ==
    \/ CallFindUtxo
    \/ CallReindex

SpecScan == InitScan /\ [][NextScan]_vars

\* The store a node starts on, and the worker of Server::start.  The store is
\* on disk: blocks of peers (add_block) and mined blocks (mine_block) reach
\* it before the worker wakes from its sleep.
StartHeights(bc) ==
    LET best == GetBestHeight(bc)
    IN {-1, MaxI32} \cup (IF best < MaxI32 THEN {best + 1} ELSE {})

InitStart ==
    /\ chain = [n \in Nodes |-> GenesisChain]
    /\ utxo = [n \in Nodes |-> Reindex(chain[n])]
    /\ mempool = [n \in Nodes |-> EmptyMap]
    /\ \E more \in SUBSET {Client} :
          known = [n \in Nodes |-> IF n = Miner THEN {KNOWN_NODE_1} \cup more
                                   ELSE {KNOWN_NODE_1}]
    /\ transit = [n \in Nodes |-> <<>>]
    /\ msgs = EmptyBag
    /\ threads = SetToBag({ [kind |-> "start", node |-> n] : n \in Nodes })
    /\ pool = {}
    /\ clock = 0
    /\ wire = {}
    /\ sync = "synced"
    /\ hist = [op |-> "create"]
    /\ SvIdle

\* add_block on the store of the node with a block of a peer.
StartAddBlock ==
    \E h \in StartHeights(chain[Miner]) :
        LET b == NewBlock(<<>>, chain[Miner].last, h, clock + 1)
        IN /\ Cardinality(wire \cup {b}) <= MaxPeerBlocks
           /\ wire' = wire \cup {b}
           /\ chain' = [chain EXCEPT ![Miner] = AddBlock(chain[Miner], b)]
           /\ sync' = "stale"
           /\ hist' = [op |-> "add_block", block |-> b,
                       seen |-> b.hash \in DOMAIN chain[Miner].db,
                       again |-> hist.op = "add_block" /\ hist.block = b]
           /\ UNCHANGED <<utxo, mempool, known, transit, msgs, threads, pool, clock, sv>>

\* mine_block on the store of the node.
StartMineBlock ==
    \E wraps \in Builds(chain[Miner]) :
        LET r == MineBlock(chain[Miner], <<>>, clock + 1, wraps)
        IN /\ clock < MaxMined
           /\ chain' = [chain EXCEPT ![Miner] = r.bc]
           /\ clock' = IF r.res = "ok" THEN clock + 1 ELSE clock
           /\ sync' = "stale"
           /\ hist' = [op |-> "mine_block", res |-> r.res, txs |-> <<>>,
                       block |-> IF r.res = "ok" THEN r.block
                                 ELSE chain[Miner].db[chain[Miner].last]]
           /\ UNCHANGED <<utxo, mempool, known, transit, msgs, threads, pool, wire, sv>>

NextStart ==
    \/ StartAddBlock
    \/ StartMineBlock
    \/ StartNode

SpecStart == InitStart /\ [][NextStart]_vars

\* BlockChainIter::next called at most k times from current_hash h: the blocks
\* yielded, and whether next has returned None.  The store is a finite map, so
\* a walk that has not ended after one call more than it holds blocks yields
\* some block twice, and then never ends.
RECURSIVE IterSteps(_, _, _)
IterSteps(db, h, k) ==
    IF h \notin DOMAIN db THEN [blocks |-> <<>>, ended |-> TRUE]
    ELSE IF k = 0 THEN [blocks |-> <<>>, ended |-> FALSE]
    ELSE LET rest == IterSteps(db, db[h].prev_block_hash, k - 1)
         IN [blocks |-> << db[h] >> \o rest.blocks, ended |-> rest.ended]

\* The blocks a peer can send: the next block on the local tip, the block
\* after it (sent before its parent), and a block whose prev_block_hash is
\* its own hash field.  add_block stores a block under the hash it carries.
WalkBlocks(bc, now) ==
    LET best   == GetBestHeight(bc)
        child  == NewBlock(<<>>, bc.last, best + 1, now)
        grand  == NewBlock(<<>>, child.hash, best + 2, now)
        looped == [child EXCEPT !.prev_block_hash = child.hash]
    IN {child, grand, looped}

InitWalk ==
    /\ chain = [n \in Nodes |-> GenesisChain]
    /\ utxo = [n \in Nodes |-> Reindex(GenesisChain)]
    /\ pool = {}
    /\ clock = 0
    /\ wire = {}
    /\ sync = "synced"
    /\ hist = [op |-> "create"]
    /\ NetIdle
    /\ SvIdle

\* BlockChain::add_block(block) with a block received from a peer.
WalkAddBlock ==
    \E b \in WalkBlocks(chain[Local], clock) \cup wire :
        /\ Cardinality(wire \cup {b}) <= MaxWalkBlocks
        /\ wire' = wire \cup {b}
        /\ chain' = [chain EXCEPT ![Local] = AddBlock(chain[Local], b)]
        /\ sync' = "stale"
        /\ hist' = [op |-> "add_block", block |-> b,
                    seen |-> b.hash \in DOMAIN chain[Local].db,
                    again |-> hist.op = "add_block" /\ hist.block = b]
        /\ sv' = [phase |-> "idle"]
        /\ UNCHANGED <<utxo, mempool, known, transit, msgs, threads, pool, clock>>

\* BlockChain::mine_block(vec![])
WalkMineBlock ==
    LET r == MineBlock(chain[Local], <<>>, clock + 1, FALSE)
    IN /\ clock < MaxMined
       /\ r.res = "ok"
       /\ chain' = [chain EXCEPT ![Local] = r.bc]
       /\ clock' = clock + 1
       /\ sync' = "stale"
       /\ hist' = [op |-> "mine_block", res |-> r.res, txs |-> <<>>, block |-> r.block]
       /\ sv' = [phase |-> "idle"]
       /\ UNCHANGED <<utxo, mempool, known, transit, msgs, threads, pool, wire>>

\* BlockChain::get_block_hashes(): the loop over self.iter().
CallGetBlockHashes ==
    LET bc == chain[Local]
    IN /\ sv.phase = "idle"
       /\ sv' = [phase |-> "walked",
                 walk  |-> IterSteps(bc.db, bc.cur, Cardinality(DOMAIN bc.db) + 1)]
       /\ UNCHANGED <<chain, utxo, mempool, known, transit, msgs, threads, pool,
                      clock, wire, sync, hist>>

NextWalk ==
    \/ WalkAddBlock
    \/ WalkMineBlock
    \/ CallGetBlockHashes

SpecWalk == InitWalk /\ [][NextWalk]_vars

\* The ledger when every transaction is made on the index as it stands,
\* mined at once in a block of its own, and the index updated with that block
\* before the next transaction is made.
CycleNewUtxo ==
    \E w \in Wallets, to \in Wallets, amount \in Amounts :
    \E order \in Orders(DOMAIN utxo[Local]) :
    \E perm \in Orders(DOMAIN FindSpendableOutputs(utxo[Local], order,
                                HashPubKey(PubKey(w)), amount, FALSE).unspent) :
        LET r == NewUtxo(chain[Local], utxo[Local], w, to, amount, order, perm, FALSE)
        IN /\ sv.phase = "idle"
           /\ clock < MaxMined
           /\ r.res = "ok"
           /\ pool' = pool \cup {r.tx}
           /\ sv' = [phase |-> "made", tx |-> r.tx]
           /\ hist' = [op |-> "new_utxo", res |-> r.res, tx |-> r.tx]
           /\ UNCHANGED <<chain, utxo, mempool, known, transit, msgs, threads,
                          clock, wire, sync>>

\* BlockChain::mine_block(vec![tx]) with the transaction just made.
CycleMineBlock ==
    LET r == MineBlock(chain[Local], << sv.tx >>, clock + 1, FALSE)
    IN /\ sv.phase = "made"
       /\ chain' = [chain EXCEPT ![Local] = r.bc]
       /\ clock' = IF r.res = "ok" THEN clock + 1 ELSE clock
       /\ sv' = IF r.res = "ok" THEN [phase |-> "mined", block |-> r.block]
                ELSE [phase |-> "idle"]
       /\ hist' = [op |-> "mine_block", res |-> r.res, txs |-> << sv.tx >>,
                   block |-> IF r.res = "ok" THEN r.block
                             ELSE chain[Local].db[chain[Local].last]]
       /\ UNCHANGED <<utxo, mempool, known, transit, msgs, threads, pool, wire, sync>>

\* Utxoset::update(&block) with the block just mined.
CycleUpdate ==
    LET r == Update(utxo[Local], sv.block)
    IN /\ sv.phase = "mined"
       /\ utxo' = [utxo EXCEPT ![Local] = r.db]
       /\ sv' = [phase |-> "idle"]
       /\ hist' = [op |-> "update", res |-> r.res, block |-> sv.block, before |-> sync]
       /\ UNCHANGED <<chain, mempool, known, transit, msgs, threads, pool, clock,
                      wire, sync>>

NextCycle ==
    \/ CycleNewUtxo
    \/ CycleMineBlock
    \/ CycleUpdate

SpecCycle == Init /\ [][NextCycle]_vars

\* A miner that reads two tx frames: its store is the genesis chain or holds
\* a peer's block with an empty-id transaction, its mempool is drawn.
InitRemine ==
    /\ \E bc \in {GenesisChain, ChainWithEmptyId} :
          chain = [n \in Nodes |-> IF n = Miner THEN bc ELSE GenesisChain]
    /\ utxo = [n \in Nodes |-> Reindex(chain[n])]
    /\ \E txs \in SUBSET DrawnPassTxs :
          mempool = [n \in Nodes |-> IF n = Miner THEN MempoolOf(txs) ELSE EmptyMap]
    /\ known = [n \in Nodes |-> Nodes]
    /\ transit = [n \in Nodes |-> <<>>]
    /\ \E tx1 \in DrawnPassTxs, tx2 \in DrawnPassTxs :
          msgs = SendData(KNOWN_NODE_1, Miner, "tx", tx1)
                 (+) SendData(KNOWN_NODE_1, Miner, "tx", tx2)
    /\ threads = EmptyBag
    /\ pool = {}
    /\ clock = 1
    /\ wire = {}
    /\ sync = "synced"
    /\ hist = [op |-> "create"]
    /\ SvIdle

NextRemine ==
    \/ HandleTx
    \/ StepTx

SpecRemine == InitRemine /\ [][NextRemine]_vars

-----------------------------------------------------------------------------
(* Properties of the store and the index *)

\* The step is a call of op (every call records itself in hist).
Called(op) == hist'.op = op

\* Two transactions have an input referencing the same (txid, vout).
SharesInput(t1, t2) ==
    \E i \in DOMAIN t1.vin, j \in DOMAIN t2.vin :
        /\ t1.vin[i].txid = t2.vin[j].txid
        /\ t1.vin[i].vout = t2.vin[j].vout

\* Some input of a transaction on the chain references (txid, vout).
Referenced(bc, txid, vout) ==
    \E t \in Range(ChainTxs(bc)) : \E i \in DOMAIN t.vin :
        t.vin[i].txid = txid /\ t.vin[i].vout = vout

\* C1: after mine_block(txs) returns Ok the best height is its value before
\* the call plus exactly 1, "LAST" and the in-memory tip are the hash of the
\* returned block, and the returned block's prev_block_hash is the value
\* "LAST" had before the call.
MineBlockAdvancesTip ==
    [][ (Called("mine_block") /\ hist'.res = "ok") =>
            /\ GetBestHeight(chain[Local]) < MaxI32   \* else no i32 is one more
            /\ GetBestHeight(chain'[Local]) = GetBestHeight(chain[Local]) + 1
            /\ chain'[Local].last = hist'.block.hash
            /\ chain'[Local].cur = hist'.block.hash
            /\ hist'.block.prev_block_hash = chain[Local].last ]_vars

\* C2: when a transaction T1 mined into the chain and a distinct signed
\* transaction T2 have an input referencing the same (txid, vout), a
\* mine_block call whose list contains T2 fails and leaves the height, "LAST"
\* and the stored blocks unchanged.
DoubleSpendRejected ==
    [][ (/\ Called("mine_block")
         /\ \E t2 \in Range(hist'.txs) : \E t1 \in Range(ChainTxs(chain[Local])) :
                t1 # t2 /\ ~IsCoinbase(t1) /\ ~IsCoinbase(t2) /\ SharesInput(t1, t2))
        => (hist'.res # "ok" /\ chain'[Local] = chain[Local]) ]_vars

\* C5: add_block(b) is a no-op whenever b.hash is already a key of the
\* store, in particular when it is called a second time right after
\* add_block(b): every stored block, "LAST" and the in-memory tip stay.
AddBlockIdempotent ==
    [][ (Called("add_block") /\ hist'.block.hash \in DOMAIN chain[Local].db)
        => chain'[Local] = chain[Local] ]_vars

\* add_block(b) has just been called a second time in a row.
AddBlockTwice == hist.op = "add_block" /\ hist.again /\ hist.seen

\* C6: over add_block and mine_block calls the height of the block "LAST"
\* points to never decreases, and add_block(b) of an unseen block stores b
\* and moves "LAST" (to b.hash) exactly when b.height is strictly greater
\* than the best height before the call.
TipMonotonic ==
    [][ /\ GetBestHeight(chain'[Local]) >= GetBestHeight(chain[Local])
        /\ (Called("add_block") /\ hist'.block.hash \notin DOMAIN chain[Local].db) =>
              /\ hist'.block.hash \in DOMAIN chain'[Local].db
              /\ chain'[Local].db[hist'.block.hash] = hist'.block
              /\ (chain'[Local].last # chain[Local].last
                    <=> hist'.block.height > GetBestHeight(chain[Local]))
              /\ (chain'[Local].last # chain[Local].last
                    => chain'[Local].last = hist'.block.hash) ]_vars

\* No transaction is on the chain twice and no output is spent twice: the
\* chain is one that honest wallets and a double-spend check would produce.
NoDoubleSpend(bc) ==
    LET txs == ChainTxs(bc)
    IN \A i, j \in DOMAIN txs :
          i # j => txs[i].id # txs[j].id /\ ~SharesInput(txs[i], txs[j])

\* C7: after update(B), B mined on a chain whose index came from reindex and
\* earlier updates, every output still listed in the entry of a txid T is an
\* output of T at a position that no input on the chain references.  Only
\* chains without a double spend are looked at.
IndexListsUnspent ==
    (/\ hist.op = "update" /\ hist.res = "ok" /\ hist.before = "behind"
     /\ NoDoubleSpend(chain[Local])) =>
        \A txid \in DOMAIN utxo[Local] :
            LET f == FindTransaction(chain[Local], txid)
                outs == utxo[Local][txid]
            IN \A k \in DOMAIN outs :
                 /\ f.found
                 /\ \E p \in DOMAIN f.tx.vout :
                       /\ f.tx.vout[p] = outs[k]
                       /\ ~Referenced(chain[Local], txid, p - 1)

\* C8: every non-coinbase transaction of every block in the node's store,
\* mined locally or received from a peer, verifies against the producing
\* transactions on the node's chain.
StoredTransactionsVerify ==
    \A h \in DOMAIN chain[Local].db :
        \A t \in Range(chain[Local].db[h].transactions) :
            ~IsCoinbase(t) => VerifyTransaction(chain[Local], t) = "true"

\* C3: verify mirrors sign: a non-coinbase transaction with n >= 1 inputs
\* whose producing transactions are all in prev_txs and whose inputs carry
\* the public key of the signing key verifies after sign(sk, prev_txs).
VerifyMirrorsSign ==
    (sv.phase = "verified" /\ sv.signed /\ ~IsCoinbase(sv.tx)) => sv.res = "true"

\* The output an input references.
ClaimedOutput(prev_txs, in) == prev_txs[in.txid].vout[in.vout + 1]

\* C4: in a non-coinbase transaction for which verify returns true every
\* input's pub_key hashes to the pub_key_hash of the output it references.
VerifiedInputsOwnOutputs ==
    (sv.phase = "verified" /\ sv.res = "true" /\ ~IsCoinbase(sv.tx)) =>
        \A i \in DOMAIN sv.tx.vin :
            CanUnlockOutputWith(sv.tx.vin[i],
                                ClaimedOutput(sv.prev_txs, sv.tx.vin[i]).pub_key_hash)

\* Every sent frame has been handled and every handler thread has ended.
Quiescent == msgs = EmptyBag /\ threads = EmptyBag

\* N1 holds N0's chain: the same best height, the same tip, and every block
\* hash of N0's chain as a key of its store.
Converged ==
    /\ GetBestHeight(chain[Miner]) = GetBestHeight(chain[KNOWN_NODE_1])
    /\ chain[Miner].last = chain[KNOWN_NODE_1].last
    /\ Range(GetBlockHashes(chain[KNOWN_NODE_1])) \subseteq DOMAIN chain[Miner].db

\* C9: when N0 holds a chain of height h > 0, N1 starts below it and no block
\* is mined, the exchange of version, getblock, inv, getdata and block
\* frames settles, under every interleaving of the handler threads, with N1
\* holding N0's chain.  Settled is the state in which nothing is in flight.
GossipConverges ==
    (Quiescent /\ GetBestHeight(chain[KNOWN_NODE_1]) > 0) => Converged

\* C10: after the client submits one valid transaction to N0 while the miner
\* M is known to N0 and holds N0's chain, once everything is delivered M has
\* mined exactly one block, holding that transaction and one coinbase to
\* M's mining address; both best heights are one more and N0's tip is M's
\* new block.
MiningTriggered ==
    (Quiescent /\ hist.op = "send_transaction" /\ hist.known /\ hist.synced) =>
        LET tip == chain[Miner].db[chain[Miner].last]
        IN /\ GetBestHeight(chain[Miner]) = hist.height + 1
           /\ GetBestHeight(chain[KNOWN_NODE_1]) = hist.height + 1
           /\ chain[KNOWN_NODE_1].last = chain[Miner].last
           /\ Len(tip.transactions) = 2
           /\ ClientTx \in Range(tip.transactions)
           /\ NewCoinbase(MiningAddress(Miner), <<>>) \in Range(tip.transactions)

\* C11: a send of x from A to a different address B with local mining, on a
\* consistent index in which A's balance is b and 0 < x <= b, succeeds and
\* leaves balance(B) increased by exactly x, balance(A) = b - x + 100 and the
\* chain height increased by 1.
LocalMineSpend ==
    (/\ hist.op = "send" /\ hist.consistent /\ hist.from # hist.to
     /\ 0 < hist.amount /\ hist.amount <= hist.balance_from) =>
        /\ hist.res = "ok"
        /\ GetBalance(utxo[Local], hist.to) = hist.balance_to + hist.amount
        /\ GetBalance(utxo[Local], hist.from) = hist.balance_from - hist.amount + Subsidy
        /\ GetBestHeight(chain[Local]) = hist.height + 1

\* The outputs at the positions listed for a txid.
RECURSIVE OutputsAt(_, _)
OutputsAt(outs, positions) ==
    IF positions = <<>> THEN <<>>
    ELSE << outs[Head(positions) + 1] >> \o OutputsAt(outs, Tail(positions))

\* The outputs find_spendable_outputs returned, in the order of its scan.
RECURSIVE Selected(_, _, _, _)
Selected(db, order, unspent, k) ==
    IF k > Len(order) THEN <<>>
    ELSE (IF order[k] \in DOMAIN unspent THEN OutputsAt(db[order[k]], unspent[order[k]])
          ELSE <<>>)
         \o Selected(db, order, unspent, k + 1)

\* The values of outs (all positive) sum to at least a; to exactly s.
RECURSIVE TotalAtLeast(_, _)
TotalAtLeast(outs, a) ==
    IF a <= 0 THEN TRUE
    ELSE IF outs = <<>> THEN FALSE
    ELSE IF Head(outs).value >= a THEN TRUE
    ELSE TotalAtLeast(Tail(outs), a - Head(outs).value)

RECURSIVE SumIs(_, _)
SumIs(outs, s) ==
    IF outs = <<>> THEN s = 0
    ELSE s >= Head(outs).value /\ SumIs(Tail(outs), s - Head(outs).value)

\* C12: find_spendable_outputs(h, a) returns accumulated >= a exactly when
\* the values of all index outputs locked to h sum to at least a; the
\* accumulated value is the sum of the values of exactly the returned
\* outputs; and accumulation stops at the first output that brings the
\* running sum to a or more.
FindSpendableAccumulates ==
    sv.phase = "found" =>
        LET all == UtxosetFindUtxo(sv.db, sv.order, sv.address)
            sel == Selected(sv.db, sv.order, sv.acc.unspent, 1)
        IN /\ sv.acc.res = "ok"
           /\ (sv.acc.accumulated >= sv.amount) <=> TotalAtLeast(all, sv.amount)
           /\ SumIs(sel, sv.acc.accumulated)
           /\ Len(sel) <= Len(all) /\ sel = SubSeq(all, 1, Len(sel))
           /\ sel # <<>> => ~TotalAtLeast(SubSeq(sel, 1, Len(sel) - 1), sv.amount)
           /\ Len(sel) < Len(all) => TotalAtLeast(sel, sv.amount)

\* C13: the stored hash of every block new_block returns begins with
\* TARGET_HEXT zero digits and is the hash of (prev_block_hash, merkle root,
\* timestamp, 4, nonce) with the block's final nonce, so validate() is true;
\* the nonce search starts at 0 and goes up by 1 per failed attempt, so no
\* smaller nonce validates.
ProofOfWorkHolds ==
    sv.phase = "block" =>
        LET b == sv.block
        IN /\ HexPrefix(b.hash[1]) = 0
           /\ b.hash = Sha256Hex([prev   |-> b.prev_block_hash,
                                  root   |-> HashTransaction(b),
                                  ts     |-> b.timestamp,
                                  target |-> 4,
                                  nonce  |-> b.nonce])
           /\ Validate(b)
           /\ b.nonce >= 0
           /\ \A k \in 0 .. b.nonce - 1 : ~Validate([b EXCEPT !.nonce = k])
           /\ b.transactions = sv.data /\ b.prev_block_hash = sv.prev_block_hash
           /\ b.height = sv.height /\ b.timestamp = sv.now

\* new_block has returned a block whose nonce search failed at least once.
ProofOfWorkSearched == sv.phase = "block" /\ sv.block.nonce > 0 /\ sv.block.transactions # <<>>

\* C14: when a transaction of the list passed to mine_block fails
\* verification, whatever its position in the list, mine_block fails and
\* nothing is persisted: the stored blocks, "LAST", the in-memory tip and the
\* best height are unchanged; the failure is that of the first transaction
\* of the list that does not verify.
FailedVerifyPersistsNothing ==
    [][ (/\ Called("mine_block")
         /\ \E t \in Range(hist'.txs) : VerifyTransaction(chain[Local], t) # "true")
        => /\ hist'.res \in {"invalid", "err", "panic"}
           /\ hist'.res = VerifyAll(chain[Local], hist'.txs, 1)
           /\ chain'[Local].db = chain[Local].db
           /\ chain'[Local].last = chain[Local].last
           /\ chain'[Local].cur = chain[Local].cur
           /\ GetBestHeight(chain'[Local]) = GetBestHeight(chain[Local]) ]_vars

\* mine_block was given a list whose first transaction verifies and whose
\* second does not, and failed.
FailedAtSecond ==
    /\ hist.op = "mine_block" /\ hist.res = "invalid"
    /\ Len(hist.txs) = 2
    /\ VerifyTransaction(chain[Local], hist.txs[1]) = "true"
    /\ VerifyTransaction(chain[Local], hist.txs[2]) = "false"

\* A transaction sequence with exactly one coinbase, at its head.
CoinbaseFirst(txs) ==
    /\ txs # <<>>
    /\ IsCoinbase(txs[1])
    /\ \A i \in DOMAIN txs : i > 1 => ~IsCoinbase(txs[i])

\* C15: the genesis block and every block a node's mining loop in handle_tx
\* has mined hold exactly one coinbase, as the first element of the
\* transaction sequence.
CoinbaseLeadsBlock ==
    /\ CoinbaseFirst(GenesisChain.db[GenesisChain.last].transactions)
    /\ \A t \in Threads("tx") :
          t.hash # <<>> => CoinbaseFirst(chain[t.node].db[t.hash].transactions)

\* The step ends the handle_tx thread t: with Ok(()) (after clear_mempool, or
\* on the return of line 270 when no transaction of the local mempool
\* verifies), or with the error of verify_tx or mine_block.
PassReturnsOk(t) ==
    /\ threads' = Take(threads, t)
    /\ \/ t.pc = "clear"
       \/ /\ t.pc = "verify"
          /\ VerifyTransaction(chain[t.node], t.mempool[t.order[t.k]]) \in {"true", "false"}

PassAborts(t) ==
    /\ threads' = Take(threads, t)
    /\ \/ t.pc = "mine"
       \/ /\ t.pc = "verify"
          /\ VerifyTransaction(chain[t.node], t.mempool[t.order[t.k]]) \notin {"true", "false"}

\* C16: when a handle_tx mining pass that has mined at least one block
\* finishes without error, the shared mempool is empty, so it holds no
\* transaction mined in the pass; when the pass aborts with an error the
\* shared mempool is not cleared.
PassClearsMempool ==
    [][ \A t \in Threads("tx") :
          /\ (PassReturnsOk(t) /\ t.hash # <<>>) =>
                /\ mempool'[t.node] = EmptyMap
                /\ \A x \in Range(chain[t.node].db[t.hash].transactions) :
                      x.id \notin DOMAIN mempool'[t.node]
          /\ PassAborts(t) => mempool'[t.node] = mempool[t.node] ]_vars

\* The index outputs the inputs of a transaction name, in input order.
RECURSIVE InputOutputs(_, _, _)
InputOutputs(db, vin, k) ==
    IF k > Len(vin) THEN <<>>
    ELSE << db[vin[k].txid][vin[k].vout + 1] >> \o InputOutputs(db, vin, k + 1)

\* The values of outs sum to need + c (need is taken off output by output).
RECURSIVE ExcessIs(_, _, _)
ExcessIs(outs, need, c) ==
    IF outs = <<>> THEN need <= 0 /\ c = -need
    ELSE IF need < MinI32 + Head(outs).value THEN FALSE
    ELSE ExcessIs(Tail(outs), need - Head(outs).value, c)

\* C17: new_utxo(wallet, to, amount) fails with the insufficient-funds error
\* exactly when the index outputs locked to the sender total less than amount
\* (it never writes to chain, index or mempool); otherwise the transaction it
\* returns has one input per selected output, a first output of value amount
\* locked to `to`, and a change output of value (selected sum - amount)
\* locked to the sender exactly when that difference is strictly positive.
NewUtxoSpendsSelected ==
    sv.phase = "built" =>
        LET h   == HashPubKey(PubKey(sv.wallet))
            all == UtxosetFindUtxo(sv.db, sv.order, h)
            acc == FindSpendableOutputs(sv.db, sv.order, h, sv.amount, sv.wraps)
            sel == InputOutputs(sv.db, sv.tx.vin, 1)
        IN /\ sv.res \in {"ok", "insufficient"}
           /\ sv.res = "insufficient" <=> ~TotalAtLeast(all, sv.amount)
           /\ sv.res = "ok" =>
                /\ \A i, j \in DOMAIN sv.tx.vin :
                      (sv.tx.vin[i].txid = sv.tx.vin[j].txid
                       /\ sv.tx.vin[i].vout = sv.tx.vin[j].vout) => i = j
                /\ \A i \in DOMAIN sv.tx.vin :
                      /\ sv.tx.vin[i].txid \in DOMAIN acc.unspent
                      /\ Contains(acc.unspent[sv.tx.vin[i].txid], sv.tx.vin[i].vout)
                      /\ sv.tx.vin[i].pub_key = PubKey(sv.wallet)
                      /\ CanBeUnlockWith(sel[i], h)
                /\ \A id \in DOMAIN acc.unspent : \A j \in DOMAIN acc.unspent[id] :
                      \E i \in DOMAIN sv.tx.vin :
                          sv.tx.vin[i].txid = id /\ sv.tx.vin[i].vout = acc.unspent[id][j]
                /\ sv.tx.vout[1] = [value |-> sv.amount, pub_key_hash |-> AddressBody(sv.to)]
                /\ Len(sv.tx.vout) \in {1, 2}
                /\ Len(sv.tx.vout) = 1 => ExcessIs(sel, sv.amount, 0)
                /\ Len(sv.tx.vout) = 2 =>
                      /\ sv.tx.vout[2].pub_key_hash = AddressBody(sv.wallet)
                      /\ sv.tx.vout[2].value > 0
                      /\ ExcessIs(sel, sv.amount, sv.tx.vout[2].value)

\* Some input of tx names a txid that no transaction on the chain has.
MissingPrev(bc, tx) ==
    \E i \in DOMAIN tx.vin : ~FindTransaction(bc, tx.vin[i].txid).found

\* The transactions of txs before position k all verify.
VerifiedBefore(bc, txs, k) ==
    \A j \in 1 .. k - 1 : VerifyTransaction(bc, txs[j]) = "true"

\* C18: verification of a non-coinbase transaction with an input whose txid
\* is the id of no transaction on the chain yields an error, never true or
\* false, and mine_block on a list containing it returns that error with the
\* store unchanged; a coinbase transaction always verifies as true.
MissingPrevErrsCoinbaseVerifies ==
    [][ Called("mine_block") =>
          \A k \in DOMAIN hist'.txs :
             /\ (~IsCoinbase(hist'.txs[k]) /\ MissingPrev(chain[Local], hist'.txs[k])) =>
                   /\ VerifyTransaction(chain[Local], hist'.txs[k]) = "err"
                   /\ hist'.res # "ok"
                   /\ VerifiedBefore(chain[Local], hist'.txs, k) => hist'.res = "err"
                   /\ chain'[Local] = chain[Local]
             /\ IsCoinbase(hist'.txs[k]) =>
                   VerifyTransaction(chain[Local], hist'.txs[k]) = "true" ]_vars

\* C19: any two transactions at different positions of the chain reachable
\* from the tip have different ids; in particular the coinbase transactions
\* new_coinbase creates for two different blocks differ in their ids even
\* when they pay the same address with the same data string.
TxIdsUnique ==
    LET txs == ChainTxs(chain[Local])
    IN \A i, j \in DOMAIN txs : i # j => txs[i].id # txs[j].id

\* The items of an inv that are not in a list of hashes, in their order.
RECURSIVE NotInTransit(_, _)
NotInTransit(items, in_transit) ==
    IF items = <<>> THEN <<>>
    ELSE (IF Contains(in_transit, Head(items)) THEN <<>> ELSE << Head(items) >>)
         \o NotInTransit(Tail(items), in_transit)

\* The frames of a bag that ask a node for a block.
GetDataBlock(bag, from, to, id) ==
    CopiesIn([to |-> to, kind |-> "getdata", from |-> from,
              body |-> [kind |-> "block", id |-> id]], bag)

\* C20: handling an inv of kind "block" with non-empty items I sends exactly
\* one getdata(block, I[0]) to addr_from, and afterwards blocks_in_transit
\* is what it was before, in the same order, followed by the items of I
\* that were not already in it: nothing that was in transit is dropped.
InvBlockAppends ==
    [][/\ \A m \in Frames("inv") :
             (/\ m.body.kind = "block" /\ m.body.items # <<>>
              /\ CopiesIn(m, msgs') = CopiesIn(m, msgs) - 1)
             => /\ GetDataBlock(msgs', m.to, m.from, m.body.items[1])
                    = GetDataBlock(msgs, m.to, m.from, m.body.items[1]) + 1
                /\ BagCardinality(msgs') = BagCardinality(msgs)
       /\ \A t \in Threads("inv") :
             (/\ t.k > Len(t.items)
              /\ threads' = Take(threads, t)
              /\ t.new_in_transit = NotInTransit(t.items, transit[t.node]))
             => transit'[t.node] = transit[t.node] \o t.new_in_transit]_vars

\* A handler thread that has made its first access to the shared inner
\* state and has not yet made its last: handle_block after add_block,
\* handle_tx after insert_mempool, handle_inv after its first
\* get_in_transit.
Accessing(t) ==
    \/ t.kind \in {"block", "tx"}
    \/ t.kind = "inv" /\ t.k > 1

\* A handler of node n takes a step: it reads a frame addressed to n, or a
\* handler thread of n moves.
NodeStepped(n) ==
    \/ \E m \in BagToSet(msgs) : m.to = n /\ CopiesIn(m, msgs') < CopiesIn(m, msgs)
    \/ \E u \in BagToSet(threads) \cup BagToSet(threads') :
          /\ u.node = n /\ u.kind # "start"
          /\ CopiesIn(u, threads') # CopiesIn(u, threads)

\* C21: each received message is processed atomically with respect to the
\* shared inner state: while a handler is between its first and its last
\* access to known_peers, mempool, blocks_in_transit and the block store, no
\* step of another handler thread of the same node is interleaved.
HandlersAtomic ==
    [][\A t \in BagToSet(threads) :
           Accessing(t) => ~(CopiesIn(t, threads') >= 1 /\ NodeStepped(t.node))]_vars

\* C22: every input (txid, vout) new_utxo emits names, by vout, a position
\* of the producing transaction's own output list at which an output locked
\* to the sender's hash stands that no input on the chain references.  The
\* index is one that reindex built and update followed, on a chain without
\* a double spend.
NewUtxoInputsUnspent ==
    (/\ hist.op = "new_utxo" /\ hist.res = "ok"
     /\ sync = "synced" /\ NoDoubleSpend(chain[Local])) =>
        \A i \in DOMAIN hist.tx.vin :
            LET in == hist.tx.vin[i]
                f  == FindTransaction(chain[Local], in.txid)
            IN /\ f.found
               /\ in.vout >= 0 /\ in.vout < Len(f.tx.vout)
               /\ CanBeUnlockWith(f.tx.vout[in.vout + 1], HashPubKey(in.pub_key))
               /\ ~Referenced(chain[Local], in.txid, in.vout)

\* C23: handling a block frame passes the block to add_block first; then, if
\* blocks_in_transit is non-empty, one getdata(block, head) goes to addr_from,
\* exactly the head is removed and no reindex happens; if it is empty, the
\* UTXO index is rebuilt and no getdata is sent.
BlockHandled ==
    [][/\ \A m \in Frames("block") :
             CopiesIn(m, msgs') < CopiesIn(m, msgs) =>
                 chain'[m.to] = AddBlock(chain[m.to], m.body)
       /\ \A t \in Threads("block") :
             CopiesIn(t, threads') < CopiesIn(t, threads) =>
                 CASE t.pc = "read" /\ transit[t.node] # <<>> ->
                          /\ GetDataBlock(msgs', t.node, t.from, Head(transit[t.node]))
                                = GetDataBlock(msgs, t.node, t.from, Head(transit[t.node])) + 1
                          /\ BagCardinality(msgs') = BagCardinality(msgs) + 1
                          /\ \E u \in Threads("block")' : u.node = t.node /\ u.pc = "write"
                          /\ utxo' = utxo
                   [] t.pc = "read" /\ transit[t.node] = <<>> ->
                          /\ msgs' = msgs
                          /\ \E u \in Threads("block")' : u.node = t.node /\ u.pc = "reindex"
                   [] t.pc = "write" ->
                          /\ transit[t.node] # <<>>
                          /\ transit'[t.node] = Tail(transit[t.node])
                          /\ utxo' = utxo /\ msgs' = msgs
                   [] t.pc = "reindex" ->
                          /\ utxo'[t.node] = Reindex(chain[t.node])
                          /\ transit' = transit /\ msgs' = msgs]_vars

\* No frame addressed to node n is in flight and no thread of n is running;
\* nothing n has sent is still under way either, so no answer is to come.
QuiescentNode(n) ==
    /\ \A m \in BagToSet(msgs) : m.to # n /\ m.from # n
    /\ \A t \in BagToSet(threads) : t.node # n

\* C24: whenever a node that has received blocks from peers is quiescent (no
\* frame addressed to it in flight, no handler of it running), its UTXO
\* index is the result of the full scan of its chain from the tip, also
\* when a peer became unreachable in the middle of a block fetch.
IndexSettles ==
    \A n \in Nodes :
        (QuiescentNode(n) /\ DOMAIN chain[n].db # DOMAIN GenesisChain.db) =>
            utxo[n] = Reindex(chain[n])

\* The outputs of tx from 0-based position index on that no input on the
\* chain references, in their order.
RECURSIVE UnreferencedOutputs(_, _, _)
UnreferencedOutputs(bc, tx, index) ==
    IF index >= Len(tx.vout) THEN <<>>
    ELSE (IF Referenced(bc, tx.id, index) THEN <<>> ELSE << tx.vout[index + 1] >>)
         \o UnreferencedOutputs(bc, tx, index + 1)

\* No transaction stands in an older block than a transaction it spends from
\* (Iter runs from the tip).
SpendsInOrder(bc) ==
    LET blocks == Iter(bc)
    IN \A i, j \in DOMAIN blocks :
          (\E s \in Range(blocks[i].transactions), t \in Range(blocks[j].transactions) :
               \E k \in DOMAIN s.vin : s.vin[k].txid = t.id) => i <= j

\* C25: find_utxo maps a txid to exactly the outputs of that transaction
\* that no input of a transaction on the chain references, in their original
\* order, and has no entry for a transaction all of whose outputs are
\* referenced, also when the spending transaction is in the block of the
\* producing one.  Chains on which a transaction stands twice, an output is
\* spent twice or a transaction precedes the block of one it spends from are
\* left aside.
FindUtxoListsUnreferenced ==
    (/\ sv.phase = "scanned" /\ NoDoubleSpend(chain[Local])
     /\ SpendsInOrder(chain[Local])) =>
        LET txs == Range(ChainTxs(chain[Local]))
        IN /\ \A tx \in txs :
                 LET outs == UnreferencedOutputs(chain[Local], tx, 0)
                 IN IF outs = <<>> THEN tx.id \notin DOMAIN sv.utxos
                    ELSE tx.id \in DOMAIN sv.utxos /\ sv.utxos[tx.id] = outs
           /\ DOMAIN sv.utxos \subseteq { tx.id : tx \in txs }

\* The number of frames of a kind in a bag that one node has sent to another.
RECURSIVE CountIn(_, _)
CountIn(bag, frames) ==
    IF frames = {} THEN 0
    ELSE LET m == CHOOSE x \in frames : TRUE
         IN CopiesIn(m, bag) + CountIn(bag, frames \ {m})

FramesSent(bag, from, to, kind) ==
    CountIn(bag, { m \in BagToSet(bag) : m.from = from /\ m.to = to /\ m.kind = kind })

\* C26: handling version{addr_from, best_height} sends getblock to addr_from
\* iff best_height is greater than the node's own best height, the node's
\* version iff it is smaller, neither when they are equal, and always exactly
\* one addr frame; afterwards addr_from is a known peer, and the block store,
\* the mempool and blocks_in_transit are unchanged.
VersionHandled ==
    [][\A m \in Frames("version") :
          CopiesIn(m, msgs') < CopiesIn(m, msgs) =>
              LET n    == m.to
                  mine == GetBestHeight(chain[n])
                  more(kind) == FramesSent(msgs', n, m.from, kind)
                                - FramesSent(msgs, n, m.from, kind)
              IN /\ more("getblock") = (IF m.body.best_height > mine THEN 1 ELSE 0)
                 /\ more("version") = (IF m.body.best_height < mine THEN 1 ELSE 0)
                 /\ more("addr") = 1
                 /\ BagCardinality(msgs') =
                       BagCardinality(msgs) + (IF m.body.best_height = mine THEN 0 ELSE 1)
                 /\ [to |-> m.from, kind |-> "addr", from |-> n, body |-> known[n]]
                       \in BagToSet(msgs')
                 /\ m.from \in known'[n]
                 /\ chain' = chain /\ utxo' = utxo
                 /\ mempool' = mempool /\ transit' = transit]_vars

\* A node has answered a version that announced a greater height: its
\* getblock and its addr are under way, and the sender is a known peer.
VersionAnswered ==
    \E n \in Nodes : \E p \in known[n] :
        /\ p # n
        /\ FramesSent(msgs, n, p, "getblock") = 1
        /\ FramesSent(msgs, n, p, "addr") = 1

\* C27: when a send to peer P fails to connect, P is removed from the
\* sender's known peers, nothing is written, no other shared state changes
\* and the handler goes on as after a send (handle_block still removes the
\* head of blocks_in_transit); a send to the node's own address writes
\* nothing and removes nothing.
SendFailureHandled ==
    [][/\ (hist'.op = "connect_failed" /\ hist' # hist) =>
             LET n == hist'.node
                 p == hist'.peer
             IN /\ known' = [known EXCEPT ![n] = @ \ {p}]
                /\ \A m \in BagToSet(msgs') : CopiesIn(m, msgs') <= CopiesIn(m, msgs)
                /\ chain' = chain /\ utxo' = utxo
                /\ mempool' = mempool /\ transit' = transit
                /\ \A t \in Threads("block") :
                      CopiesIn(t, threads') < CopiesIn(t, threads) =>
                          [t EXCEPT !.pc = "write", !.in_transit = Tail(transit[n])]
                              \in BagToSet(threads')
       /\ \A t \in Threads("start") :
             (t.node = KNOWN_NODE_1 /\ CopiesIn(t, threads') < CopiesIn(t, threads)) =>
                 /\ msgs' = msgs /\ known' = known
                 /\ chain' = chain /\ utxo' = utxo
                 /\ mempool' = mempool /\ transit' = transit]_vars

\* A send of handle_block has failed to connect and the handler has gone on
\* to write blocks_in_transit without its head.
SendFailedInFetch ==
    /\ hist.op = "connect_failed"
    /\ hist.peer \notin known[hist.node]
    /\ \E t \in Threads("block") : t.node = hist.node /\ t.pc = "write"

\* The inv frames of kind "tx" for one id in a bag, from one node to another.
InvTx(bag, from, to, id) ==
    CopiesIn([to |-> to, kind |-> "inv", from |-> from,
              body |-> [kind |-> "tx", items |-> << id >>]], bag)

\* C28: the bootstrap node handles a tx frame by inserting the transaction
\* into its mempool and sending inv(tx, [id]) to every known peer other than
\* itself and the sender, and to no one else; it never mines in handle_tx,
\* although it has a mining address.  No other node sends an inv of kind tx.
BootstrapRelays ==
    /\ [](/\ \A t \in Threads("tx") : t.node = KNOWN_NODE_1 => t.pc = "known"
          /\ \A m \in Frames("inv") : m.body.kind = "tx" => m.from = KNOWN_NODE_1)
    /\ [][/\ \A m \in Frames("tx") :
                (m.to = KNOWN_NODE_1 /\ CopiesIn(m, msgs') < CopiesIn(m, msgs)) =>
                    /\ mempool' = [mempool EXCEPT ![m.to] = Put(@, m.body.id, m.body)]
                    /\ chain' = chain
          /\ \A t \in Threads("tx") :
                (t.node = KNOWN_NODE_1 /\ CopiesIn(t, threads') < CopiesIn(t, threads)) =>
                    LET peers == known[t.node] \ {t.node, t.from}
                    IN /\ \A p \in Nodes \cup {Client} :
                             InvTx(msgs', t.node, p, t.tx.id) - InvTx(msgs, t.node, p, t.tx.id)
                                = (IF p \in peers THEN 1 ELSE 0)
                       /\ BagCardinality(msgs') = BagCardinality(msgs) + Cardinality(peers)
                       /\ Threads("tx")' \subseteq Threads("tx")
                       /\ MiningAddress(t.node) # 0
                       /\ chain' = chain /\ mempool' = mempool]_vars

\* The bootstrap node has relayed a transaction it holds in its mempool to
\* the peer that did not send it, and its handler has ended.
BootstrapRelayed ==
    /\ \A t \in BagToSet(threads) : t.node # KNOWN_NODE_1
    /\ \E id \in DOMAIN mempool[KNOWN_NODE_1] :
          InvTx(msgs, KNOWN_NODE_1, Miner, id) = 1

\* C29: the worker of Server::start of a node other than the bootstrap node
\* sends getblock to every known peer, and no version, when the tip of the
\* store cannot be read (LAST names no stored block); otherwise it sends
\* exactly one version frame to the bootstrap node, carrying the best height
\* of the store, and no getblock.
TipReadable(bc) == bc.last \in DOMAIN bc.db

StartupBranches ==
    [][\A t \in Threads("start") :
          (t.node # KNOWN_NODE_1 /\ threads' = Take(threads, t)) =>
             LET n    == t.node
                 sent == msgs' (-) msgs
             IN IF ~TipReadable(chain[n])
                THEN /\ \A p \in known[n] \ {n} :
                           FramesSent(sent, n, p, "getblock") = 1
                     /\ \A p \in Nodes \cup {Client} :
                           FramesSent(sent, n, p, "version") = 0
                ELSE /\ sent = SetToBag({[to |-> KNOWN_NODE_1, kind |-> "version",
                                          from |-> n,
                                          body |-> [version |-> VERSION,
                                                    best_height |-> GetBestHeight(chain[n])]]})
      ]_vars

\* C30: on every store reached through mine_block and add_block, blocks of
\* peers included, the walk of iter() ends; it starts at the block LAST
\* names, every further block is the one whose hash is the prev_block_hash
\* of the block yielded before it, no block is yielded twice, and the last
\* block yielded is one whose prev_block_hash is "".
IterWalksToGenesis ==
    sv.phase = "walked" =>
        LET blocks == sv.walk.blocks
        IN /\ sv.walk.ended
           /\ blocks # <<>>
           /\ blocks[1].hash = chain[Local].last
           /\ \A i \in 2 .. Len(blocks) : blocks[i].hash = blocks[i - 1].prev_block_hash
           /\ \A i, j \in DOMAIN blocks : blocks[i] = blocks[j] => i = j
           /\ blocks[Len(blocks)].prev_block_hash = <<>>

\* C31: when every transaction made by new_utxo has been mined in its own
\* block and update has run with each mined block, the index maps every
\* txid to the same outputs as a fresh reindex of the chain.
UpdateMatchesReindex ==
    (sv.phase = "idle" /\ hist.op = "update") =>
        utxo[Local] = Reindex(chain[Local])

\* C32: on every node, whatever the order and interleaving of the tx
\* handlers, no transaction other than a coinbase is in two different blocks
\* of the chain walked from the tip.
MinedOnce ==
    \A n \in Nodes :
        LET blocks == Iter(chain[n])
        IN \A i, j \in DOMAIN blocks :
              i # j => \A x \in Range(blocks[i].transactions) :
                          ~IsCoinbase(x) => x \notin Range(blocks[j].transactions)

\* C33: in every state of the network, on every node, the block named by the
\* prev_block_hash of a stored block is stored unless that hash is "", the
\* walk from the tip ends at a block whose prev_block_hash is "", and it
\* visits best_height + 1 blocks whose heights go down by exactly one.
StoreClosed ==
    \A n \in Nodes :
        LET db     == chain[n].db
            blocks == Iter(chain[n])
        IN /\ \A h \in DOMAIN db :
                 db[h].prev_block_hash # <<>> => db[h].prev_block_hash \in DOMAIN db
           /\ blocks[Len(blocks)].prev_block_hash = <<>>
           /\ Len(blocks) = GetBestHeight(chain[n]) + 1
           /\ \A i \in 2 .. Len(blocks) : blocks[i].height = blocks[i - 1].height - 1

\* The sum of the values of all outputs of an index.
RECURSIVE IndexTotal(_)
IndexTotal(db) ==
    IF DOMAIN db = {} THEN 0
    ELSE LET k == CHOOSE x \in DOMAIN db : TRUE
         IN SumValues(db[k]) + IndexTotal([x \in DOMAIN db \ {k} |-> db[x]])

\* The number of coinbase transactions in a sequence of transactions.
RECURSIVE Coinbases(_)
Coinbases(txs) ==
    IF txs = <<>> THEN 0
    ELSE (IF IsCoinbase(Head(txs)) THEN 1 ELSE 0) + Coinbases(Tail(txs))

\* C34: on every chain built by new_utxo and mine_block the outputs a full
\* reindex lists are worth one reward of 100 per block: no value is made
\* other than by rewards and none is lost.  The rewards are counted per
\* block, or per coinbase on the chain where a block was mined without one.
ValueConserved ==
    LET total == IndexTotal(Reindex(chain[Local]))
    IN \/ total = Subsidy * Len(Iter(chain[Local]))
       \/ total = Subsidy * Coinbases(ChainTxs(chain[Local]))

\* C35: a transaction new_utxo returns, whatever the amount (zero and
\* negative amounts included), has at least one input and only outputs of a
\* value above zero; new_utxo returns no transaction without inputs that
\* verify_transaction and mine_block accept.
NewUtxoSpendsSomething ==
    (sv.phase = "built" /\ sv.res = "ok") =>
        /\ Len(sv.tx.vin) >= 1
        /\ \A i \in DOMAIN sv.tx.vout : sv.tx.vout[i].value > 0
        /\ ~ /\ sv.tx.vin = <<>>
             /\ VerifyTransaction(chain[Local], sv.tx) = "true"
             /\ MineBlock(chain[Local], << sv.tx >>, clock + 1, FALSE).res = "ok"

====
